---- MODULE Spec2Model ----
(***************************************************************************)
(* A model of the pack/data plane of TBCModLoader:                         *)
(*   src/src/tbcml/game_data/pack.py   GameFile, PackFile, GamePacks       *)
(*   src/src/tbcml/crypto.py           AesCipher                           *)
(*                                                                         *)
(* Python's Optional[T] is a sequence of length <= 1: None is <<>> and a   *)
(* value x is <<x>>.  A dict is a sequence of its values in insertion      *)
(* order (Python dicts keep insertion order), with unique keys.            *)
(*                                                                         *)
(* A pack name is the sequence of its "_"-separated components, which is   *)
(* what pack_name.split("_") returns: "DataLocal_en" is                    *)
(* <<"DataLocal", "en">>.                                                  *)
(***************************************************************************)
EXTENDS Integers, Sequences, FiniteSets, TLC

VARIABLES
    cc,             \* GamePacks.country_code / GameFile.cc / Apk.country_code
    gv,             \* GamePacks.gv: "legacy" (< 8.9.0) or "modern" (>= 8.9.0)
    apk_key,        \* Apk.key, Optional[str]
    apk_iv,         \* Apk.iv, Optional[str]
    packs,          \* GamePacks.packs: dict[str, PackFile], insertion order
    modified_packs, \* GamePacks.modified_packs (the keys of the dict)
    csv_cache,      \* GamePacks.csv_cache: dict[str, CSV]
    emitted,        \* what the last to_pack_list_file or to_packs_lists call
                    \* returned, Optional
    decoded,        \* what from_pack_file made of emitted, Optional
    pc,             \* "loading" (inside from_apk's loop) or "ready"
    ops,            \* number of writing operations performed so far
    last_write,     \* history: per file name, the data of the last successful set_file
    lastOp,         \* history: the last catalog operation and what it returned
    held,           \* the CSV object a caller of get_csv holds, Optional
    index,          \* the argument of MapIndexType.from_index
    index_type,     \* what MapIndexType.from_index returned (itself Optional), Optional
    pack_cipher,    \* the last get_cipher_from_pack call of a caller outside
                    \* the catalog: its arguments and its result, Optional
    raw_row,        \* the list of integers read from a row of unitNNN.csv or
                    \* unitbuy.csv
    stats,          \* the Stats built from raw_row, Optional
    unit_buy_data,  \* Cat.unit_buy_data, Optional: <<>> until it is built
    nyanko_picture_book_data,   \* Cat.nyanko_picture_book_data
    last_obtainable,\* history: the argument of the last Cat.set_obtainable
                    \* call, Optional
    cats,           \* Cats.cats of the receiver of import_cats: dict[int, Cat]
    maps,           \* Maps.maps of the receiver of import_maps: dict[int, Map]
    gd_records,     \* the records from_game_data reads from the game data
    last_import,    \* history: the last import_cats or import_maps call, Optional
    table,          \* the lines of the CSV a collection record is written to
                    \* (Map_option.csv, Stage_option.csv, SkillAcquisition.csv)
    last_apply,     \* history: the last to_game_data call of a collection
                    \* record, Optional
    clone,          \* what GamePacks.copy returned, Optional
    loading_mods,   \* ModLoader.loading_mods
    workers         \* per worker thread of the mod loader dialog, the place
                    \* it has reached in load_mods_thread ("idle" when the
                    \* thread does not exist)

\* the state outside the catalog (crypto.py's callers, map.py, cats.py)
catVars == <<raw_row, stats, unit_buy_data, nyanko_picture_book_data, last_obtainable>>
\* the state above the core: a copy of the catalog, the mod loader dialog
uiVars == <<clone, loading_mods, workers>>
modVars == <<cats, maps, gd_records, last_import, table, last_apply, uiVars>>
recordVars == <<index, index_type, pack_cipher, catVars, modVars>>

\* the state of the catalog and of the pack codec (pack.py)
catalogVars == <<cc, gv, apk_key, apk_iv, packs, modified_packs, csv_cache, emitted,
                 decoded, pc, ops, last_write, lastOp, held>>

vars == <<catalogVars, recordVars>>

----------------------------------------------------------------------------
(* Bounds of the model *)

\* packs the APK holds at most
MaxPacks == 3
\* writing operations (set_file, set_csv, PackFile.set_file) per behaviour
MaxOps == 1
\* files a pack of the APK holds at most, where the codec is checked
MaxFiles == 2

----------------------------------------------------------------------------
(* Optional values and small helpers *)

None == <<>>
Some(x) == <<x>>

SeqToSet(s) == {s[i] : i \in 1..Len(s)}

----------------------------------------------------------------------------
(* tbcml.Data: a byte buffer.                                              *)
(* b is the buffer's bytes when layers is empty.  AES under a key is a     *)
(* permutation of the block-aligned buffers that the model does not        *)
(* compute: layers is the stack of cipher transformations applied to b     *)
(* and not yet undone, so that decrypt undoes encrypt under the same       *)
(* cipher and under no other.  A layer is <<tag, mode, key, iv>> with tag  *)
(* "E" (encrypted), "D" (decrypted) or "P" (one block of padding appended  *)
(* to a buffer whose bytes are not known).                                 *)

\* AES block size in bytes; Data.pad_pkcs7's block size
BlockSize == 16

Plain(bytes) == [b |-> bytes, layers |-> <<>>]

PadLayer == <<"P", "", "", "">>

DataLen(d) ==
    Len(d.b) + BlockSize * Cardinality({i \in 1..Len(d.layers) : d.layers[i] = PadLayer})

\* Data.pad_pkcs7: append n bytes of value n, n = 16 - len % 16
pad_pkcs7(d) ==
    IF d.layers = <<>>
    THEN LET n == BlockSize - (Len(d.b) % BlockSize)
         IN  Plain(d.b \o [i \in 1..n |-> n])
    ELSE [d EXCEPT !.layers = Append(@, PadLayer)]

\* Data.unpad_pkcs7: [ok, data]; ok = FALSE is the ValueError it raises.
\* The last byte of a buffer decrypted under a wrong cipher is taken to be
\* no valid padding.
unpad_pkcs7(d) ==
    IF d.layers # <<>>
    THEN IF d.layers[Len(d.layers)] = PadLayer
         THEN [ok |-> TRUE, data |-> [d EXCEPT !.layers = SubSeq(@, 1, Len(@) - 1)]]
         ELSE [ok |-> FALSE, data |-> d]
    ELSE LET n == Len(d.b)
             pad == IF n = 0 THEN 0 ELSE d.b[n]
         IN  IF n = 0 \/ pad = 0 \/ pad > n
                \/ \E i \in (n - pad + 1)..n : d.b[i] # pad
             THEN [ok |-> FALSE, data |-> d]
             ELSE [ok |-> TRUE, data |-> Plain(SubSeq(d.b, 1, n - pad))]

----------------------------------------------------------------------------
(* crypto.py: AesCipher *)

MODE_ECB == "ECB"
MODE_CBC == "CBC"

\* AesCipher.__init__
AesCipher(key, iv, mode, enable) ==
    [key |-> key, iv |-> iv,
     mode |-> IF mode # None THEN mode[1]
              ELSE IF iv = None THEN MODE_ECB ELSE MODE_CBC,
     enable |-> enable]

CipherCore(c) == <<c.mode, c.key, IF c.iv = None THEN "" ELSE c.iv[1]>>

\* AesCipher.encrypt
AesEncrypt(c, d) ==
    IF ~c.enable THEN d
    ELSE LET n == Len(d.layers)
         IN  IF n > 0 /\ d.layers[n] = <<"D">> \o CipherCore(c)
             THEN [d EXCEPT !.layers = SubSeq(@, 1, n - 1)]
             ELSE [d EXCEPT !.layers = Append(@, <<"E">> \o CipherCore(c))]

\* AesCipher.decrypt
AesDecrypt(c, d) ==
    IF ~c.enable THEN d
    ELSE LET n == Len(d.layers)
         IN  IF n > 0 /\ d.layers[n] = <<"E">> \o CipherCore(c)
             THEN [d EXCEPT !.layers = SubSeq(@, 1, n - 1)]
             ELSE [d EXCEPT !.layers = Append(@, <<"D">> \o CipherCore(c))]

CountryCodes == {"en", "jp", "kr", "tw"}

\* AesCipher.get_key_iv_from_cc
get_key_iv_from_cc(c) ==
    CASE c = "jp" -> <<"d754868de89d717fa9e7b06da45ae9e3", "40b2131a9f388ad4e5002a98118f6128">>
      [] c = "en" -> <<"0ad39e4aeaf55aa717feb1825edef521", "d1d7e708091941d90cdf8aa5f30bb0c2">>
      [] c = "kr" -> <<"bea585eb993216ef4dcb88b625c3df98", "9b13c2121d39f1353a125fed98696649">>
      [] c = "tw" -> <<"313d9858a7fb939def1d7d859629087d", "0e3743eb53bf5944d1ae7e10c2e54bdf">>

\* CountryCode.get_language
get_language(c) ==
    CASE c = "en" -> "en"
      [] c = "jp" -> "ja"
      [] c = "kr" -> "ko"
      [] c = "tw" -> "tw"

\* Hash(MD5).get_hash(Data("battlecats"), 8).to_hex()
LegacyKey == "89a0f99078419c28"

\* PackFile.is_server_pack: "Server" in pack_name
ServerWords == {"MapServer", "NumberServer", "UnitServer", "ImageServer", "ImageDataServer"}
is_server_pack(pack_name) ==
    \E i \in 1..Len(pack_name) : pack_name[i] \in ServerWords

\* PackFile.is_image_data_local_pack: "imagedatalocal" in pack_name.lower()
is_image_data_local_pack(pack_name) ==
    \E i \in 1..Len(pack_name) : pack_name[i] = "ImageDataLocal"

\* GameVersion: gv < GameVersion.from_string("8.9.0")
GameVersions == {"legacy", "modern"}
gv_lt_8_9_0(g) == g = "legacy"

\* get_cipher_from_pack with force_server left out of the test of line 201
get_cipher_from_pack_unforced(c, pack_name, g, force_server, key, iv) ==
    LET kiv == get_key_iv_from_cc(c)
        key1 == IF key = None THEN kiv[1] ELSE key[1]
        iv1 == IF iv = None THEN kiv[2] ELSE iv[1]
        enable == IF force_server THEN TRUE ELSE ~is_image_data_local_pack(pack_name)
    IN  IF is_server_pack(pack_name) \/ gv_lt_8_9_0(g)
        THEN AesCipher(LegacyKey, None, Some(MODE_ECB), enable)
        ELSE AesCipher(key1, Some(iv1), Some(MODE_CBC), enable)

\* AesCipher.get_cipher_from_pack
get_cipher_from_pack(c, pack_name, g, force_server, key, iv) ==
    LET kiv == get_key_iv_from_cc(c)
        key1 == IF key = None THEN kiv[1] ELSE key[1]
        iv1 == IF iv = None THEN kiv[2] ELSE iv[1]
        enable == IF force_server THEN TRUE ELSE ~is_image_data_local_pack(pack_name)
    IN  IF is_server_pack(pack_name) \/ gv_lt_8_9_0(g) \/ force_server
        THEN AesCipher(LegacyKey, None, Some(MODE_ECB), enable)
        ELSE AesCipher(key1, Some(iv1), Some(MODE_CBC), enable)

----------------------------------------------------------------------------
(* pack.py: GameFile *)

\* GameFile.__init__.  written is history: the plaintext was assigned
\* (dec_data setter, or dec_data given to the constructor) since the load.
GameFile(enc_data, file_name, pack_name, key, iv, dec) ==
    [enc_data |-> enc_data, file_name |-> file_name, pack_name |-> pack_name,
     key |-> key, iv |-> iv, dec |-> dec, original_dec_data |-> None,
     written |-> dec # None]

\* PackFile.get_cipher
get_cipher(c, pack_name, g, force_server, key, iv) ==
    get_cipher_from_pack(c, pack_name, g, force_server, key, iv)

\* GameFile.dec_data (getter): the value it returns.  Every file of the
\* model has enc_data or a plaintext, so the ValueError of line 40 is not
\* reached.
dec_data(f) ==
    IF f.dec # None THEN f.dec[1]
    ELSE LET cipher == get_cipher(cc, f.pack_name, gv, FALSE, f.key, f.iv)
             data == AesDecrypt(cipher, f.enc_data[1])
             u == unpad_pkcs7(data)
         IN  IF u.ok THEN u.data ELSE data

\* GameFile.dec_data (getter): the file afterwards, its plaintext cached
dec_data_read(f) == [f EXCEPT !.dec = Some(dec_data(f))]

\* GameFile.dec_data (setter)
dec_data_set(f, data) == [f EXCEPT !.dec = Some(data), !.written = TRUE]

\* GameFile.encrypt: [ok, data]; ok = FALSE is the ValueError of line 70.
\* Data.__eq__ against None (original_dec_data is never assigned) is false.
encrypt(f, force_server, key, iv) ==
    IF f.enc_data # None /\ (f.dec = None \/ f.dec = f.original_dec_data)
    THEN [ok |-> TRUE, data |-> f.enc_data[1]]
    ELSE IF f.enc_data # None /\ is_image_data_local_pack(f.pack_name) /\ ~force_server
    THEN [ok |-> TRUE, data |-> f.enc_data[1]]
    ELSE IF f.dec = None
    THEN [ok |-> FALSE, data |-> Plain(<<>>)]
    ELSE LET cipher == get_cipher(cc, f.pack_name, gv, force_server, key, iv)
         IN  [ok |-> TRUE, data |-> AesEncrypt(cipher, pad_pkcs7(f.dec[1]))]

\* GameFile.is_anim
AnimExtensions == {".maanim", ".mamodel", ".imgcut"}

\* str.endswith on the file names of the model
FileExt == [n \in {"unit.csv", "udi.png", "cat.maanim", "cat.mamodel", "cat.imgcut"} |->
              CASE n = "unit.csv" -> ".csv"
                [] n = "udi.png" -> ".png"
                [] n = "cat.maanim" -> ".maanim"
                [] n = "cat.mamodel" -> ".mamodel"
                [] n = "cat.imgcut" -> ".imgcut"]
endswith(file_name, ext) == FileExt[file_name] = ext

is_anim(file_name) == \E ext \in AnimExtensions : endswith(file_name, ext)

----------------------------------------------------------------------------
(* pack.py: PackFile *)

\* PackFile.__init__
PackFile(pack_name) == [pack_name |-> pack_name, files |-> <<>>, modified |-> FALSE]

\* dict lookup in PackFile.files: the position of file_name, 0 when absent
FileIndex(files, file_name) ==
    IF \E i \in 1..Len(files) : files[i].file_name = file_name
    THEN CHOOSE i \in 1..Len(files) : files[i].file_name = file_name
    ELSE 0

\* files[file.file_name] = file: a dict keeps the position of a key it has
DictPut(files, file) ==
    LET i == FileIndex(files, file.file_name)
    IN  IF i = 0 THEN Append(files, file) ELSE [files EXCEPT ![i] = file]

\* PackFile.add_file
add_file(pack, file) == [pack EXCEPT !.files = DictPut(@, file)]

\* PackFile.set_file: the pack afterwards
PackFile_set_file(pack, file_name, file_data) ==
    LET i == FileIndex(pack.files, file_name)
    IN  IF i = 0
        THEN add_file(pack, GameFile(None, file_name, pack.pack_name, None, None,
                                     Some(file_data)))
        ELSE [pack EXCEPT !.files[i] = dec_data_set(@, file_data)]

\* PackFile.set_modified
set_modified(pack, modified) == [pack EXCEPT !.modified = modified]

\* tbcml.Languages.get_all / get_all_strings (spec section 3.2: the known set)
Languages == <<"en", "ja", "ko", "tw", "de", "es", "fr", "it", "th">>
LanguageStrings == SeqToSet(Languages)

ServerPackList == <<"MapServer", "NumberServer", "UnitServer", "ImageServer", "ImageDataServer">>

\* pack.replace("Server", "Local")
ReplaceServerLocal(word) ==
    CASE word = "MapServer" -> "MapLocal"
      [] word = "NumberServer" -> "NumberLocal"
      [] word = "UnitServer" -> "UnitLocal"
      [] word = "ImageServer" -> "ImageLocal"
      [] word = "ImageDataServer" -> "ImageDataLocal"

\* f"_{lang}" in file_name: a component after the first is lang
HasLangTag(name, lang) == \E i \in 2..Len(name) : name[i] = lang

\* file_name.replace(f"_{lang}", "")
RECURSIVE RemoveLangTag(_, _, _)
RemoveLangTag(name, lang, i) ==
    IF i > Len(name) THEN <<>>
    ELSE (IF i >= 2 /\ name[i] = lang THEN <<>> ELSE <<name[i]>>)
         \o RemoveLangTag(name, lang, i + 1)

\* a conversion that leaves the pack name as it is
convert_pack_name_unconverted(pack_name) == pack_name

\* PackFile.convert_pack_name_server_local
convert_pack_name_server_local(pack_name) ==
    LET hit(k) == \E i \in 1..Len(pack_name) : pack_name[i] = ServerPackList[k]
        hits == {k \in 1..Len(ServerPackList) : hit(k)}
        first == CHOOSE k \in hits : \A j \in hits : k <= j
        file_name == IF hits = {} THEN pack_name
                     ELSE <<ReplaceServerLocal(ServerPackList[first])>>
        lhits == {k \in 1..Len(Languages) : HasLangTag(file_name, Languages[k])}
        lfirst == CHOOSE k \in lhits : \A j \in lhits : k <= j
    IN  IF lhits = {} THEN file_name
        ELSE RemoveLangTag(file_name, Languages[lfirst], 1)

----------------------------------------------------------------------------
(* pack.py: the pack codec.                                                *)
(* A pack blob is the sequence of its entries' ciphertexts (Data.from_many *)
(* concatenates them in this order).  A list file is the key it is         *)
(* encrypted under and the lines of its CSV; a cell is a name or a decimal *)
(* number.  The PKCS#7 bytes that from_pack_file leaves at the end of the  *)
(* decrypted list are taken not to disturb its rows (spec section 6.1).    *)

NameCell(s) == [isnum |-> FALSE, n |-> 0, s |-> s]
\* str(n)
NumCell(n) == [isnum |-> TRUE, n |-> n, s |-> ""]

\* list_key of from_pack_file
list_key == "b484857901742afc"
\* Hash(MD5).get_hash(Data("pack"), 8).to_hex() of to_pack_list_file
list_key_enc == "b484857901742afc"

\* the offset of chunk k of a blob
RECURSIVE BlobOffset(_, _)
BlobOffset(blob, k) ==
    IF k <= 1 THEN 0 ELSE BlobOffset(blob, k - 1) + DataLen(blob[k - 1])

\* enc_pack_data.data[start : start + size]: an entry of the blob when the
\* slice is one, and otherwise bytes the model does not know
Slice(blob, start, size) ==
    IF size = 0 THEN Plain(<<>>)
    ELSE LET ks == {k \in 1..Len(blob) :
                      BlobOffset(blob, k) = start /\ DataLen(blob[k]) = size}
         IN  IF ks = {} THEN [b |-> <<>>, layers |-> <<<<"S", "", "", "">>>>]
             ELSE blob[CHOOSE k \in ks : TRUE]

\* the loop of from_pack_file over the entry rows i..total_files
RECURSIVE ReadEntries(_, _, _, _, _, _, _, _)
ReadEntries(lines, i, total, blob, pack_name, key, iv, files) ==
    IF i > total THEN [status |-> "ok", files |-> files]
    ELSE IF i + 1 > Len(lines) THEN [status |-> "none", files |-> files]
    ELSE LET line == lines[i + 1]
         IN  IF Len(line) < 3 \/ ~line[2].isnum \/ ~line[3].isnum
             THEN [status |-> "error", files |-> files]
             ELSE ReadEntries(lines, i + 1, total, blob, pack_name, key, iv,
                     DictPut(files,
                        GameFile(Some(Slice(blob, line[2].n, line[3].n)),
                                 line[1].s, pack_name, key, iv, None)))

\* PackFile.from_pack_file: status "ok" with the pack, "none" (returns
\* None) or "error" (an exception escapes)
from_pack_file(enc_list_data, enc_pack_data, pack_name, key, iv) ==
    LET lines == enc_list_data.lines
        nopack == PackFile(pack_name)
    IN  IF enc_list_data.key # list_key THEN [status |-> "error", pack |-> nopack]
        ELSE IF Len(lines) = 0 THEN [status |-> "none", pack |-> nopack]
        ELSE IF Len(lines[1]) = 0 \/ ~lines[1][1].isnum
        THEN [status |-> "error", pack |-> nopack]
        ELSE LET r == ReadEntries(lines, 1, lines[1][1].n, enc_pack_data,
                                  pack_name, key, iv, <<>>)
             IN  [status |-> r.status,
                  pack |-> IF r.status = "ok" THEN [nopack EXCEPT !.files = r.files]
                           ELSE nopack]

\* the loop of to_pack_list_file over self.files.values()
RECURSIVE WriteEntries(_, _, _, _, _, _, _)
WriteEntries(files, i, key, iv, offset, lines, blob) ==
    IF i > Len(files) THEN [ok |-> TRUE, lines |-> lines, blob |-> blob]
    ELSE LET e == encrypt(files[i], FALSE, key, iv)
         IN  IF ~e.ok THEN [ok |-> FALSE, lines |-> lines, blob |-> blob]
             ELSE WriteEntries(files, i + 1, key, iv, offset + DataLen(e.data),
                     Append(lines, <<NameCell(files[i].file_name), NumCell(offset),
                                     NumCell(DataLen(e.data))>>),
                     Append(blob, e.data))

\* PackFile.to_pack_list_file: (pack_name, pack_data, ls_data)
\* a to_pack_list_file whose offsets are counted from 1
to_pack_list_file_from_one(pack, key, iv) ==
    LET w == WriteEntries(pack.files, 1, key, iv, 1,
                          <<<<NumCell(Len(pack.files))>>>>, <<>>)
    IN  [ok |-> w.ok, pack_name |-> pack.pack_name, pack_data |-> w.blob,
         ls_data |-> [key |-> list_key_enc, lines |-> w.lines]]

to_pack_list_file(pack, key, iv) ==
    LET w == WriteEntries(pack.files, 1, key, iv, 0,
                          <<<<NumCell(Len(pack.files))>>>>, <<>>)
    IN  [ok |-> w.ok, pack_name |-> pack.pack_name, pack_data |-> w.blob,
         ls_data |-> [key |-> list_key_enc, lines |-> w.lines]]

----------------------------------------------------------------------------
(* tbcml.CSV: a delimited-table view of a Data.  A CSV is the sequence of  *)
(* its lines, a line the sequence of its cells, a cell a sequence of       *)
(* bytes.                                                                  *)

NewLine == 10
Comma == 44

RECURSIVE SplitOn(_, _)
SplitOn(bytes, sep) ==
    LET hits == {i \in 1..Len(bytes) : bytes[i] = sep}
    IN  IF hits = {} THEN <<bytes>>
        ELSE LET i == CHOOSE k \in hits : \A j \in hits : k <= j
             IN  <<SubSeq(bytes, 1, i - 1)>> \o SplitOn(SubSeq(bytes, i + 1, Len(bytes)), sep)

RECURSIVE JoinWith(_, _)
JoinWith(parts, sep) ==
    IF Len(parts) = 0 THEN <<>>
    ELSE IF Len(parts) = 1 THEN parts[1]
    ELSE parts[1] \o <<sep>> \o JoinWith(Tail(parts), sep)

\* CSV(data, delimeter): the lines of the text, empty lines dropped; bytes
\* that are not plaintext parse to one cell the model does not know
CSV(data, delimeter) ==
    IF data.layers # <<>> THEN <<<<<<0>>>>>>
    ELSE LET raw == SelectSeq(SplitOn(data.b, NewLine), LAMBDA l : l # <<>>)
         IN  [i \in 1..Len(raw) |-> SplitOn(raw[i], delimeter)]

\* CSV.to_data
to_data(csv, delimeter) ==
    Plain(JoinWith([i \in 1..Len(csv) |-> JoinWith(csv[i], delimeter)], NewLine))

----------------------------------------------------------------------------
(* pack.py: GamePacks *)

\* dict lookup in GamePacks.packs: the position of pack_name, 0 when absent
PackIndex(ps, pack_name) ==
    IF \E i \in 1..Len(ps) : ps[i].pack_name = pack_name
    THEN CHOOSE i \in 1..Len(ps) : ps[i].pack_name = pack_name
    ELSE 0

\* GamePacks.get_pack
get_pack(ps, pack_name) == PackIndex(ps, pack_name)

\* GamePacks.get_pack_gv, for a game version that is not a Java one
\* (GameVersion.is_java() false): the name is looked up as it is
get_pack_gv(ps, pack_name) == get_pack(ps, pack_name)

\* a find_file that skips no pack
is_language_pack_never(pack_name) == FALSE

\* find_file, lines 486-489: the pack is skipped as a language pack
is_language_pack(pack_name) ==
    Len(pack_name) > 1 /\ pack_name[2] \in LanguageStrings

\* find_file, lines 481-493: found_files, as the positions of their packs
found_files(ps, file_name) ==
    SelectSeq([i \in 1..Len(ps) |-> i],
              LAMBDA i : /\ FileIndex(ps[i].files, file_name) # 0
                         /\ ~is_language_pack(ps[i].pack_name))

FileOf(ps, i, file_name) == ps[i].files[FileIndex(ps[i].files, file_name)]

\* a find_file that returns the first of two found files
pick_of_two_first(f0, f1) == 1

\* find_file, lines 501-511: the choice between two found files
pick_of_two(f0, f1) ==
    IF ~is_server_pack(f0.pack_name) THEN 1
    ELSE IF ~is_server_pack(f1.pack_name) THEN 2
    ELSE IF DataLen(dec_data(f0)) > DataLen(dec_data(f1)) THEN 1
    ELSE IF DataLen(dec_data(f0)) < DataLen(dec_data(f1)) THEN 2
    ELSE 1

\* GamePacks.find_file: the position of the pack whose file it returns,
\* as an Optional
find_file(ps, file_name) ==
    LET found == found_files(ps, file_name)
    IN  IF Len(found) = 0 THEN None
        ELSE IF Len(found) = 1 THEN Some(found[1])
        ELSE IF Len(found) = 2
        THEN Some(found[pick_of_two(FileOf(ps, found[1], file_name),
                                    FileOf(ps, found[2], file_name))])
        ELSE None

\* the packs with the plaintext of file_name in pack i read (and cached)
ReadIn(ps, i, file_name) ==
    [ps EXCEPT ![i].files[FileIndex(ps[i].files, file_name)] = dec_data_read(@)]

\* GamePacks.find_file: the packs afterwards.  The lengths of lines 506-509
\* are compared only when both found files are in Server packs, and that
\* reads the plaintext of both.
find_file_packs(ps, file_name) ==
    LET found == found_files(ps, file_name)
    IN  IF Len(found) = 2
           /\ is_server_pack(FileOf(ps, found[1], file_name).pack_name)
           /\ is_server_pack(FileOf(ps, found[2], file_name).pack_name)
        THEN ReadIn(ReadIn(ps, found[1], file_name), found[2], file_name)
        ELSE ps

\* a routing that sends every new file to DataLocal
route_new_file_data(file_name) == <<"DataLocal">>

\* set_file, lines 580-585: the pack a new file goes to
route_new_file(file_name) ==
    IF is_anim(file_name) THEN <<"ImageDataLocal">>
    ELSE IF endswith(file_name, ".png") THEN <<"ImageLocal">>
    ELSE <<"DataLocal">>

\* set_file, lines 599-607, with the packs ps and the pack name of file
set_file_store(ps, mp, file_name, data, file_pack_name) ==
    LET new_pack_name == convert_pack_name_server_local(file_pack_name)
        k == get_pack_gv(ps, new_pack_name)
    IN  IF k = 0
        THEN [status |-> "FileNotFoundError", packs |-> ps, modified_packs |-> mp,
              ret |-> None]
        ELSE LET ps1 == [ps EXCEPT ![k] = PackFile_set_file(@, file_name, data)]
                 file == FileOf(ps1, k, file_name)
             IN  [status |-> "ok", packs |-> ps1,
                  modified_packs |-> mp \cup {file.pack_name},
                  ret |-> Some(file.pack_name)]

\* a set_file without the test of lines 597-598: it stores data that equals
\* the file's plaintext as well
set_file_always_stored(ps, mp, file_name, data) ==
    LET ps0 == find_file_packs(ps, file_name)
        found == find_file(ps, file_name)
    IN  IF found = None
        THEN LET k == get_pack_gv(ps0, route_new_file(file_name))
             IN  IF k = 0
                 THEN [status |-> "FileNotFoundError", packs |-> ps0,
                       modified_packs |-> mp, ret |-> None]
                 ELSE set_file_store(ps0, mp, file_name, data, ps0[k].pack_name)
        ELSE set_file_store(ReadIn(ps0, found[1], file_name), mp, file_name, data,
                            FileOf(ps0, found[1], file_name).pack_name)

\* GamePacks.set_file: [status, packs, modified_packs, ret], ret the pack
\* name of the file it returns
set_file(ps, mp, file_name, data) ==
    LET ps0 == find_file_packs(ps, file_name)
        found == find_file(ps, file_name)
    IN  IF found = None
        THEN LET k == get_pack_gv(ps0, route_new_file(file_name))
             IN  IF k = 0
                 THEN [status |-> "FileNotFoundError", packs |-> ps0,
                       modified_packs |-> mp, ret |-> None]
                 ELSE set_file_store(ps0, mp, file_name, data, ps0[k].pack_name)
        ELSE LET file == FileOf(ps0, found[1], file_name)
                 ps1 == ReadIn(ps0, found[1], file_name)
             IN  IF dec_data(file) = data
                 THEN [status |-> "ok", packs |-> ps1, modified_packs |-> mp,
                       ret |-> Some(file.pack_name)]
                 ELSE set_file_store(ps1, mp, file_name, data, file.pack_name)

\* a to_packs_lists that skips no pack
to_packs_lists_unskipped(ps, mp, g, key, iv) ==
    LET should_reencrypt == (key # None \/ iv # None) /\ ~gv_lt_8_9_0(g)
        out == SelectSeq(ps, LAMBDA pack :
                   pack.pack_name \in mp \/ pack.modified \/ should_reencrypt)
    IN  [i \in 1..Len(out) |-> to_pack_list_file(out[i], key, iv)]

\* GamePacks.to_packs_lists: the list of (pack_name, pack_data, ls_data)
to_packs_lists(ps, mp, g, key, iv) ==
    LET should_reencrypt == (key # None \/ iv # None) /\ ~gv_lt_8_9_0(g)
        out == SelectSeq(ps, LAMBDA pack :
                   /\ pack.pack_name \in mp \/ pack.modified \/ should_reencrypt
                   /\ ~is_server_pack(pack.pack_name))
    IN  [i \in 1..Len(out) |-> to_pack_list_file(out[i], key, iv)]

\* GamePacks.get_csv: [ret, shared, packs, csv_cache], ret the CSV it
\* returns as an Optional, shared whether the object returned is the one
\* the cache holds (line 427 returns csv.copy(), line 439 returns csv)
get_csv(ps, cache, file_name, delimeter, use_cache, update_cache) ==
    IF use_cache /\ cache[file_name] # None
    THEN [ret |-> cache[file_name], shared |-> FALSE, packs |-> ps, csv_cache |-> cache]
    ELSE LET ps0 == find_file_packs(ps, file_name)
             found == find_file(ps, file_name)
         IN  IF found = None
             THEN [ret |-> None, shared |-> FALSE, packs |-> ps0, csv_cache |-> cache]
             ELSE LET csv == CSV(dec_data(FileOf(ps0, found[1], file_name)), delimeter)
                  IN  [ret |-> Some(csv),
                       shared |-> update_cache,
                       packs |-> ReadIn(ps0, found[1], file_name),
                       csv_cache |-> IF update_cache
                                     THEN [cache EXCEPT ![file_name] = Some(csv)]
                                     ELSE cache]

\* set_csv, lines 449-451: what set_csv leaves, r being what set_file left.
\* The cache is assigned before set_file is called, so it stays assigned
\* when set_file raises.
set_csv_result(r, cache, file_name, csv, update_cache) ==
    [status |-> r.status, packs |-> r.packs, modified_packs |-> r.modified_packs,
     ret |-> r.ret,
     csv_cache |-> IF update_cache THEN [cache EXCEPT ![file_name] = Some(csv)]
                   ELSE cache]

\* a set_csv that leaves the cache as it was
set_csv_uncached(ps, mp, cache, file_name, csv, update_cache) ==
    set_csv_result(set_file(ps, mp, file_name, to_data(csv, Comma)),
                   cache, file_name, csv, FALSE)

\* GamePacks.set_csv with a csv that is not None
set_csv(ps, mp, cache, file_name, csv, update_cache) ==
    set_csv_result(set_file(ps, mp, file_name, to_data(csv, Comma)),
                   cache, file_name, csv, update_cache)

----------------------------------------------------------------------------
(* The inputs: what the APK holds and what callers pass *)

FileNames == DOMAIN FileExt

\* plaintexts: "1" and "1,2"
Short == <<49>>
Long == <<49, 44, 50>>
Plaintexts == {Short, Long}

\* CSVs callers pass: one line "1" and one line "1,2"
CSVs == {<<<<Short>>>>, <<<<<<49>>, <<50>>>>>>}

\* a key and an iv other than the country's, as an APK built with its own has
CustomKey == "00112233445566778899aabbccddeeff"
CustomIv == "ffeeddccbbaa99887766554433221100"

\* the cipher the packs of this APK are encrypted under
ApkCipher(pack_name) == get_cipher_from_pack(cc, pack_name, gv, FALSE, apk_key, apk_iv)

\* an entry of a pack blob as the game stores it: padded and encrypted
Stored(pack_name, plain) == AesEncrypt(ApkCipher(pack_name), pad_pkcs7(Plain(plain)))

\* an entry whose bytes are one block that does not end in PKCS#7 padding
StoredUnpadded(pack_name) ==
    AesEncrypt(ApkCipher(pack_name), Plain([i \in 1..BlockSize |-> 49]))

\* the list file of a pack blob with the entries named names, in order
RECURSIVE ListRows(_, _, _)
ListRows(names, blob, i) ==
    IF i > Len(names) THEN <<>>
    ELSE <<<<NameCell(names[i]), NumCell(BlobOffset(blob, i)), NumCell(DataLen(blob[i]))>>>>
         \o ListRows(names, blob, i + 1)

ApkList(names, blob) ==
    [key |-> list_key, lines |-> <<<<NumCell(Len(names))>>>> \o ListRows(names, blob, 1)]

\* the pack names of the catalog's APK
ApkPackNames ==
    {<<"DataLocal">>, <<"ImageLocal">>, <<"ImageDataLocal">>,
     <<"MapServer">>, <<"ImageDataServer">>,
     <<"DataLocal", "en">>, <<"DataLocal", "jp">>}

NoOp ==
    [op |-> "none", name |-> "", data |-> None, csv |-> None, status |-> "ok",
     ret |-> None, src |-> None, src_file |-> None, hits |-> 0, cache_before |-> None]

\* the record layer before any call
CatIdle ==
    /\ raw_row = <<>>
    /\ stats = None
    /\ unit_buy_data = None
    /\ nyanko_picture_book_data = [obtainable |-> TRUE]
    /\ last_obtainable = None

\* ids of the records (cats, maps) a collection holds at most
MaxIds == 2

\* Cats.create_empty, Maps.create_empty: a dict[int, record] with no key.
\* A dict is the function from the ids to Optional records.
EmptyRecords == [id \in 0..(MaxIds - 1) |-> None]

\* nothing imported
\* the number of worker threads the dialog can have started
MaxWorkers == 3

\* no copy taken, the dialog as add_ui leaves it (loading_mods = False)
UiIdle ==
    /\ clone = None
    /\ loading_mods = FALSE
    /\ workers = [w \in 1..MaxWorkers |-> "idle"]

ModIdle ==
    /\ UiIdle
    /\ cats = EmptyRecords
    /\ maps = EmptyRecords
    /\ gd_records = EmptyRecords
    /\ last_import = None
    /\ table = <<>>
    /\ last_apply = None

RecordIdle ==
    /\ index = 0
    /\ index_type = None
    /\ pack_cipher = None
    /\ CatIdle
    /\ ModIdle

----------------------------------------------------------------------------
(* The catalog: GamePacks.from_apk, then the catalog's operations *)

\* GamePacks.__init__ of an empty catalog, from_apk about to fill it
CatalogInit(ccs, gvs, keys, ivs) ==
    /\ cc \in ccs
    /\ gv \in gvs
    /\ apk_key \in keys
    /\ apk_iv \in ivs
    /\ packs = <<>>
    /\ modified_packs = {}
    /\ csv_cache = [n \in FileNames |-> None]
    /\ emitted = None
    /\ decoded = None
    /\ pc = "loading"
    /\ ops = 0
    /\ last_write = [n \in FileNames |-> None]
    /\ lastOp = NoOp
    /\ held = None

InitWith(ccs, gvs, keys, ivs) ==
    /\ CatalogInit(ccs, gvs, keys, ivs)
    /\ RecordIdle

\* what a pack of the APK holds of unit.csv.  A pack that no operation
\* writes to (a Server pack, a pack with a tag) is of interest only when it
\* holds the file; the pack find_file skips holds the longer copy.
ApkContents(pack_name) ==
    IF Len(pack_name) = 1 /\ ~is_server_pack(pack_name)
    THEN {<<>>, <<Short>>, <<Long>>}
    ELSE IF is_language_pack(pack_name) THEN {<<Long>>}
    ELSE {<<Short>>, <<Long>>}

\* one turn of the loop of GamePacks.from_apk
FromApkPack ==
    /\ pc = "loading"
    /\ Len(packs) < MaxPacks
    /\ \E pack_name \in ApkPackNames :
        /\ PackIndex(packs, pack_name) = 0
        /\ \E content \in ApkContents(pack_name) :
            LET blob == [i \in 1..Len(content) |-> Stored(pack_name, content[i])]
                names == [i \in 1..Len(content) |-> "unit.csv"]
                r == from_pack_file(ApkList(names, blob), blob, pack_name, apk_key, apk_iv)
            IN  packs' = IF r.status = "ok" THEN Append(packs, r.pack) ELSE packs
    /\ UNCHANGED <<recordVars, held, cc, gv, apk_key, apk_iv, modified_packs, csv_cache, emitted, decoded,
                   pc, ops, last_write, lastOp>>

\* the end of GamePacks.from_apk: GamePacks.__init__.  init_data reads
\* localizable.tsv, which no pack of the model holds: get_csv returns None
\* and changes nothing.
FromApkDone ==
    /\ pc = "loading"
    /\ pc' = "ready"
    /\ UNCHANGED <<recordVars, held, cc, gv, apk_key, apk_iv, packs, modified_packs, csv_cache, emitted,
                   decoded, ops, last_write, lastOp>>

\* what an operation on file_name sees before it acts
Before(op, file_name) ==
    LET found == find_file(packs, file_name)
    IN  [NoOp EXCEPT !.op = op, !.name = file_name,
                     !.src = IF found = None THEN None
                             ELSE Some(FileOf(packs, found[1], file_name).pack_name),
                     !.src_file = IF found = None THEN None
                                  ELSE Some(FileOf(packs, found[1], file_name)),
                     !.hits = Len(found_files(packs, file_name)),
                     !.cache_before = csv_cache[file_name]]

\* GamePacks.find_file
FindFile(file_name) ==
    /\ pc = "ready"
    /\ packs' = find_file_packs(packs, file_name)
    /\ lastOp' = LET b == Before("find_file", file_name)
                 IN  [b EXCEPT !.ret = b.src, !.src_file = None]
    /\ UNCHANGED <<recordVars, held, cc, gv, apk_key, apk_iv, modified_packs, csv_cache, emitted, decoded,
                   pc, ops, last_write>>

\* GamePacks.set_file
SetFile(file_name, data) ==
    /\ pc = "ready"
    /\ ops < MaxOps
    /\ LET r == set_file(packs, modified_packs, file_name, data)
       IN  /\ packs' = r.packs
           /\ modified_packs' = r.modified_packs
           /\ last_write' = IF r.status = "ok"
                            THEN [last_write EXCEPT ![file_name] = Some(data)]
                            ELSE last_write
           /\ lastOp' = [Before("set_file", file_name) EXCEPT
                            !.data = Some(data), !.status = r.status, !.ret = r.ret]
    /\ ops' = ops + 1
    /\ UNCHANGED <<recordVars, held, cc, gv, apk_key, apk_iv, csv_cache, emitted, decoded, pc>>

\* GamePacks.set_csv, as every caller of the repository calls it
\* (update_cache left at its default)
SetCsv(file_name, csv) ==
    /\ pc = "ready"
    /\ ops < MaxOps
    /\ \E r \in {set_csv(packs, modified_packs, csv_cache, file_name, csv, TRUE)} :
           /\ packs' = r.packs
           /\ modified_packs' = r.modified_packs
           /\ csv_cache' = r.csv_cache
           /\ last_write' = IF r.status = "ok"
                            THEN [last_write EXCEPT ![file_name] = Some(to_data(csv, Comma))]
                            ELSE last_write
           /\ lastOp' = [Before("set_csv", file_name) EXCEPT
                            !.data = Some(to_data(csv, Comma)), !.csv = Some(csv),
                            !.status = r.status, !.ret = r.ret]
    /\ held' = IF held # None /\ held[1].name = file_name
               THEN Some([held[1] EXCEPT !.shared = FALSE])
               ELSE held
    /\ ops' = ops + 1
    /\ UNCHANGED <<recordVars, cc, gv, apk_key, apk_iv, emitted, decoded, pc>>

\* GamePacks.get_csv, as every caller of the repository calls it
\* (use_cache and update_cache left at their defaults)
GetCsv(file_name) ==
    /\ pc = "ready"
    /\ \E r \in {get_csv(packs, csv_cache, file_name, Comma, TRUE, TRUE)} :
           /\ packs' = r.packs
           /\ csv_cache' = r.csv_cache
           /\ held' = IF r.ret = None THEN None
                      ELSE Some([name |-> file_name, csv |-> r.ret[1],
                                 returned |-> r.ret[1], shared |-> r.shared,
                                 mutated |-> FALSE])
    /\ UNCHANGED <<recordVars, cc, gv, apk_key, apk_iv, modified_packs, emitted, decoded,
                   pc, ops, last_write, lastOp>>

\* csv.lines.append(["9"]) on the object the caller holds
AppendLine(csv) == Append(csv, <<<<57>>>>)

\* the caller of get_csv changes the CSV object it was given; the cache
\* changes with it when it holds that same object
MutateCsv ==
    /\ pc = "ready"
    /\ held # None
    /\ ~held[1].mutated
    /\ held' = Some([held[1] EXCEPT !.csv = AppendLine(@), !.mutated = TRUE])
    /\ csv_cache' = IF held[1].shared
                    THEN [csv_cache EXCEPT ![held[1].name] = Some(AppendLine(held[1].csv))]
                    ELSE csv_cache
    /\ UNCHANGED <<recordVars, cc, gv, apk_key, apk_iv, packs, modified_packs, emitted,
                   decoded, pc, ops, last_write, lastOp>>

\* the names whose CSV callers get and set
CsvNames == {"unit.csv"}

\* the catalog under writes
Init == InitWith({"en"}, {"modern"}, {None}, {None})

Next ==
    \/ FromApkPack
    \/ FromApkDone
    \/ \E file_name \in FileNames, data \in Plaintexts : SetFile(file_name, Plain(data))
    \/ \E file_name \in CsvNames, csv \in CSVs : SetCsv(file_name, csv)
    \/ \E file_name \in CsvNames : GetCsv(file_name)

Spec == Init /\ [][Next]_vars

\* the catalog under get_csv and callers that change what it returned
NextCsv ==
    \/ FromApkPack
    \/ FromApkDone
    \/ \E file_name \in CsvNames : GetCsv(file_name)
    \/ MutateCsv

SpecCsv == Init /\ [][NextCsv]_vars

\* PackFile.set_modified on a pack of the catalog
SetModified(i, modified) ==
    /\ pc = "ready"
    /\ ops < MaxOps
    /\ i \in 1..Len(packs)
    /\ packs' = [packs EXCEPT ![i] = set_modified(@, modified)]
    /\ ops' = ops + 1
    /\ UNCHANGED <<recordVars, held, cc, gv, apk_key, apk_iv, modified_packs, csv_cache,
                   emitted, decoded, pc, last_write, lastOp>>

\* GamePacks.to_packs_lists.  The arguments and the catalog of the call are
\* kept with what it returned.
ToPacksLists(key, iv) ==
    /\ pc = "ready"
    /\ emitted' = Some([key |-> key, iv |-> iv,
                        lists |-> to_packs_lists(packs, modified_packs, gv, key, iv),
                        packs |-> packs, modified_packs |-> modified_packs])
    /\ UNCHANGED <<recordVars, held, cc, gv, apk_key, apk_iv, packs, modified_packs,
                   csv_cache, decoded, pc, ops, last_write, lastOp>>

\* the names written before the catalog is emitted
EmitNames == {"unit.csv", "udi.png"}

\* the catalog under writes and to_packs_lists
InitEmit == InitWith({"en"}, {"modern"}, {None}, {None})

NextEmit ==
    \/ FromApkPack
    \/ FromApkDone
    \/ \E file_name \in EmitNames, data \in Plaintexts : SetFile(file_name, Plain(data))
    \/ \E i \in 1..MaxPacks, modified \in BOOLEAN : SetModified(i, modified)
    \/ \E key \in {None, Some(CustomKey)}, iv \in {None, Some(CustomIv)} :
           ToPacksLists(key, iv)

SpecEmit == InitEmit /\ [][NextEmit]_vars

\* the plaintext of every file of every pack, as (pack, name, plaintext)
PlaintextOf(ps) ==
    UNION {{<<ps[i].pack_name, ps[i].files[j].file_name, dec_data(ps[i].files[j])>> :
               j \in 1..Len(ps[i].files)} : i \in 1..Len(ps)}

\* a copy that copies the GamePacks object only (copy.copy): the three
\* dicts of the copy are the dicts of the original
GamePacks_copy_shallow(ps, mp, cache) ==
    [packs |-> ps, modified_packs |-> mp, csv_cache |-> cache,
     shares |-> {"packs", "modified_packs", "csv_cache"}]

\* GamePacks.copy: copy.deepcopy(self).  The copy is kept by value, with the
\* attributes whose object it shares with the original (none).
GamePacks_copy(ps, mp, cache) ==
    [packs |-> ps, modified_packs |-> mp, csv_cache |-> cache, shares |-> {}]

\* c = g.copy().  side says which of the two the catalog operations act on
\* from here on: the variables of the catalog are that object, clone is the
\* other one.
Copy(side) ==
    /\ pc = "ready"
    /\ clone = None
    /\ clone' = Some([at_copy |-> GamePacks_copy(packs, modified_packs, csv_cache),
                      side |-> side])
    /\ UNCHANGED <<catalogVars, index, index_type, pack_cipher, catVars, cats, maps,
                   gd_records, last_import, table, last_apply, loading_mods, workers>>

\* what the object no operation acts on holds now: an attribute it shares
\* with the other object is what that object holds
Untouched ==
    LET at_copy == clone[1].at_copy
    IN  [packs |-> IF "packs" \in at_copy.shares THEN packs ELSE at_copy.packs,
         modified_packs |-> IF "modified_packs" \in at_copy.shares THEN modified_packs
                            ELSE at_copy.modified_packs,
         csv_cache |-> IF "csv_cache" \in at_copy.shares THEN csv_cache
                       ELSE at_copy.csv_cache]

\* the catalog and its copy under writes and reads
InitCopy == InitWith({"en"}, {"modern"}, {None}, {None})

NextCopy ==
    \/ FromApkPack
    \/ FromApkDone
    \/ \E side \in {"g", "c"} : Copy(side)
    \/ \E file_name \in CsvNames, data \in Plaintexts : SetFile(file_name, Plain(data))
    \/ \E file_name \in CsvNames, csv \in CSVs : SetCsv(file_name, csv)
    \/ \E file_name \in CsvNames : GetCsv(file_name)

SpecCopy == InitCopy /\ [][NextCopy]_vars

\* the ways the list of a pack is malformed
Malformations == {"empty", "count", "rows", "offset", "length"}

\* the list of a pack blob with the entries named names, malformed in the
\* way kind says: no line at all, an entry count that is no number, one row
\* fewer than the count, an offset or a length that is no number
MalformedList(kind, names, blob) ==
    LET rows == ListRows(names, blob, 1)
    IN  [key |-> list_key,
         lines |-> CASE kind = "empty" -> <<>>
                     [] kind = "count" -> <<<<NameCell("x")>>>> \o rows
                     [] kind = "rows" -> <<<<NumCell(Len(names) + 1)>>>> \o rows
                     [] kind = "offset" ->
                            <<<<NumCell(Len(names))>>>>
                            \o [rows EXCEPT ![Len(rows)][2] = NameCell("x")]
                     [] kind = "length" ->
                            <<<<NumCell(Len(names))>>>>
                            \o [rows EXCEPT ![Len(rows)][3] = NameCell("x")]]

\* one turn of the loop of GamePacks.from_apk on a pack whose list is
\* malformed.  from_apk has no handler: what from_pack_file raises leaves
\* from_apk, and no catalog is built.
FromApkMalformed(kind) ==
    /\ pc = "loading"
    /\ Len(packs) < MaxPacks
    /\ ops < MaxOps
    /\ \E pack_name \in ApkPackNames :
        /\ PackIndex(packs, pack_name) = 0
        /\ \E content \in ApkContents(pack_name) \ {<<>>} :
            LET blob == [i \in 1..Len(content) |-> Stored(pack_name, content[i])]
                names == [i \in 1..Len(content) |-> "unit.csv"]
                r == from_pack_file(MalformedList(kind, names, blob), blob, pack_name,
                                    apk_key, apk_iv)
            IN  /\ packs' = IF r.status = "ok" THEN Append(packs, r.pack) ELSE packs
                /\ pc' = IF r.status = "error" THEN "raised" ELSE pc
                /\ lastOp' = [NoOp EXCEPT !.op = "from_apk", !.name = kind,
                                          !.src = Some(pack_name), !.status = r.status]
    /\ ops' = ops + 1
    /\ UNCHANGED <<recordVars, held, cc, gv, apk_key, apk_iv, modified_packs, csv_cache,
                   emitted, decoded, last_write>>

\* the catalog under from_apk on an APK one of whose packs is malformed
InitApk == InitWith({"en"}, {"modern"}, {None}, {None})

NextApk ==
    \/ FromApkPack
    \/ \E kind \in Malformations : FromApkMalformed(kind)
    \/ FromApkDone
    \/ \E file_name \in CsvNames : FindFile(file_name)

SpecApk == InitApk /\ [][NextApk]_vars

\* the catalog under lookups
InitFind == InitWith({"en", "jp"}, {"modern"}, {None}, {None})

NextFind ==
    \/ FromApkPack
    \/ FromApkDone
    \/ \E file_name \in FileNames : FindFile(file_name)

SpecFind == InitFind /\ [][NextFind]_vars

----------------------------------------------------------------------------
(* The codec: one pack decoded by from_pack_file, its files read and       *)
(* written, the pack encoded by to_pack_list_file and decoded again        *)

CodecPackNames == {<<"DataLocal">>, <<"ImageDataLocal">>, <<"MapServer">>}
CodecFileNames == {"unit.csv", "udi.png"}

\* the forms an entry of the blob of pack_name has: padded and encrypted,
\* one block without padding and, where the cipher is bypassed, bare bytes
StoredForms(pack_name) ==
    {Stored(pack_name, p) : p \in Plaintexts}
    \cup {StoredUnpadded(pack_name)}
    \cup (IF ApkCipher(pack_name).enable THEN {} ELSE {Plain(p) : p \in Plaintexts})

\* the sequences of at most n different names
RECURSIVE NameSeqs(_)
NameSeqs(n) ==
    IF n = 0 THEN {<<>>}
    ELSE LET shorter == NameSeqs(n - 1)
         IN  shorter \cup {Append(q, x) : q \in shorter, x \in CodecFileNames}

DistinctNameSeqs(n) ==
    {q \in NameSeqs(n) : \A i, j \in 1..Len(q) : i # j => q[i] # q[j]}

InitCodec == InitWith(CountryCodes, GameVersions, {None, Some(CustomKey)},
                      {None, Some(CustomIv)})

\* PackFile.from_pack_file on a pack of the APK, as from_apk calls it
CodecLoad ==
    /\ pc = "loading"
    /\ \E pack_name \in CodecPackNames, names \in DistinctNameSeqs(MaxFiles) :
        \E blob \in [1..Len(names) -> StoredForms(pack_name)] :
            LET r == from_pack_file(ApkList(names, blob), blob, pack_name, apk_key, apk_iv)
            IN  /\ r.status = "ok"
                /\ packs' = <<r.pack>>
    /\ pc' = "ready"
    /\ UNCHANGED <<recordVars, held, cc, gv, apk_key, apk_iv, modified_packs, csv_cache, emitted, decoded,
                   ops, last_write, lastOp>>

\* GameFile.dec_data (getter) on file i of the pack
CodecRead(i) ==
    /\ pc = "ready"
    /\ i \in 1..Len(packs[1].files)
    /\ packs' = [packs EXCEPT ![1].files[i] = dec_data_read(@)]
    /\ UNCHANGED <<recordVars, held, cc, gv, apk_key, apk_iv, modified_packs, csv_cache, emitted, decoded,
                   pc, ops, last_write, lastOp>>

\* PackFile.set_file
CodecWrite(file_name, data) ==
    /\ pc = "ready"
    /\ ops < MaxOps
    /\ packs' = [packs EXCEPT ![1] = PackFile_set_file(@, file_name, data)]
    /\ ops' = ops + 1
    /\ UNCHANGED <<recordVars, held, cc, gv, apk_key, apk_iv, modified_packs, csv_cache, emitted, decoded,
                   pc, last_write, lastOp>>

\* PackFile.to_pack_list_file, called without key and iv
CodecEncode ==
    /\ pc = "ready"
    /\ emitted' = Some(to_pack_list_file(packs[1], None, None))
    /\ decoded' = None
    /\ UNCHANGED <<recordVars, held, cc, gv, apk_key, apk_iv, packs, modified_packs, csv_cache, pc, ops,
                   last_write, lastOp>>

\* PackFile.from_pack_file on what to_pack_list_file returned, with the
\* parameters the pack was first decoded with
CodecDecode ==
    /\ pc = "ready"
    /\ emitted # None
    /\ emitted[1].ok
    /\ decoded' = Some(from_pack_file(emitted[1].ls_data, emitted[1].pack_data,
                                      emitted[1].pack_name, apk_key, apk_iv))
    /\ UNCHANGED <<recordVars, held, cc, gv, apk_key, apk_iv, packs, modified_packs, csv_cache, emitted,
                   pc, ops, last_write, lastOp>>

NextCodec ==
    \/ CodecLoad
    \/ \E i \in 1..MaxFiles : CodecRead(i)
    \/ \E file_name \in CodecFileNames, data \in Plaintexts : CodecWrite(file_name, Plain(data))
    \/ CodecEncode
    \/ CodecDecode

SpecCodec == InitCodec /\ [][NextCodec]_vars

----------------------------------------------------------------------------
(* Properties of the codec (SpecCodec) *)

\* C1: a file loaded by from_pack_file whose plaintext was never written
\* since the load, read or not, encrypts without a new key/iv to the
\* ciphertext it was loaded with; and the blob to_pack_list_file returns for
\* a pack none of whose files was written is the blob the pack came in with.
C1_UnwrittenEncryptsToLoaded ==
    pc = "ready" =>
        LET files == packs[1].files
        IN  /\ \A i \in 1..Len(files) :
                 ~files[i].written =>
                     encrypt(files[i], FALSE, None, None)
                         = [ok |-> TRUE, data |-> files[i].enc_data[1]]
            /\ (emitted # None /\ \A i \in 1..Len(files) : ~files[i].written) =>
                 /\ emitted[1].ok
                 /\ emitted[1].pack_data = [i \in 1..Len(files) |-> files[i].enc_data[1]]

\* C2: decoding what to_pack_list_file returned for a pack that
\* from_pack_file produced (none of its files written) succeeds and yields
\* the same file names in the same order and, file by file, the same
\* plaintext.
C2_CodecRoundTrip ==
    (/\ pc = "ready"
     /\ decoded # None
     /\ \A i \in 1..Len(packs[1].files) : ~packs[1].files[i].written) =>
        LET files == packs[1].files
            again == decoded[1].pack.files
        IN  /\ decoded[1].status = "ok"
            /\ Len(again) = Len(files)
            /\ \A i \in 1..Len(files) :
                 /\ again[i].file_name = files[i].file_name
                 /\ dec_data(again[i]) = dec_data(files[i])

\* C25: a file of a pack under a padded cipher whose decrypted bytes do not
\* end in valid PKCS#7 padding has no plaintext: reading it is an error
\* (CryptoBadInput) and returns no data.
C25_BadPaddingIsError ==
    pc = "ready" =>
        \A i \in 1..Len(packs[1].files) :
            LET f == packs[1].files[i]
                c == get_cipher(cc, f.pack_name, gv, FALSE, f.key, f.iv)
            IN  (/\ f.enc_data # None
                 /\ ~f.written
                 /\ c.enable
                 /\ ~unpad_pkcs7(AesDecrypt(c, f.enc_data[1])).ok) =>
                    f.dec = None

\* the list and the blob to_pack_list_file returns for pack: the count, one
\* row (name, offset, length) per file in insertion order, offsets running
\* from 0, the blob the ciphertexts in the same order
ListLayout(pack, out) ==
    LET n == Len(pack.files)
        lines == out.ls_data.lines
    IN  /\ out.ok
        /\ Len(lines) = n + 1
        /\ lines[1] = <<NumCell(n)>>
        /\ Len(out.pack_data) = n
        /\ \A j \in 1..n :
               /\ Len(lines[j + 1]) = 3
               /\ lines[j + 1][1] = NameCell(pack.files[j].file_name)
               /\ lines[j + 1][2] = NumCell(IF j = 1 THEN 0
                                            ELSE lines[j][2].n + lines[j][3].n)
               /\ lines[j + 1][3] = NumCell(DataLen(out.pack_data[j]))
               /\ out.pack_data[j] = encrypt(pack.files[j], FALSE, None, None).data

\* C26: to_pack_list_file emits the number of files N, then exactly N rows
\* (name, offset, length) in insertion order, length the entry's ciphertext
\* length, the first offset 0, each later offset the previous offset plus
\* the previous length, and as blob the ciphertexts in the same order.
C26_ListLayout ==
    [][(emitted' # emitted /\ emitted' # None) => ListLayout(packs[1], emitted'[1])]_vars

\* to_pack_list_file has returned a pack of two entries of different lengths
C26_Witness ==
    /\ emitted # None
    /\ emitted[1].ok
    /\ Len(emitted[1].pack_data) = 2
    /\ DataLen(emitted[1].pack_data[1]) # DataLen(emitted[1].pack_data[2])
    /\ emitted[1].ls_data.lines[3][2].n = DataLen(emitted[1].pack_data[1])

\* C24: a pack whose list is malformed (no line, an entry count that is no
\* number, fewer rows than the count, an offset or length that is no number)
\* is left out of the catalog, the packs loaded before it stay, the loop
\* goes on to the other packs and no error leaves from_apk.
C24_MalformedPackSkipped ==
    [][ops' = ops + 1 =>
          /\ pc' = "loading"
          /\ packs' = packs
          /\ PackIndex(packs', lastOp'.src[1]) = 0]_vars

----------------------------------------------------------------------------
(* Properties of GamePacks.copy (SpecCopy) *)

----------------------------------------------------------------------------
(* Properties of lookups (SpecFind) *)

\* the packs that hold file_name and carry no known language as a suffix,
\* in insertion order
Exposing(file_name) ==
    SelectSeq([i \in 1..Len(packs) |-> i],
              LAMBDA i : /\ \E k \in 1..Len(packs[i].files) :
                                packs[i].files[k].file_name = file_name
                         /\ ~(Len(packs[i].pack_name) > 1
                              /\ packs[i].pack_name[2] \in LanguageStrings))

PlainLenIn(i, file_name) == DataLen(dec_data(FileOf(packs, i, file_name)))

\* C4: when exactly one Local and one Server pack expose a name, in either
\* insertion order, find_file returned the entry of the Local pack.
C4_LocalOverServer ==
    lastOp.op = "find_file" =>
        LET e == Exposing(lastOp.name)
        IN  (Len(e) = 2 /\ is_server_pack(packs[e[1]].pack_name)
                            # is_server_pack(packs[e[2]].pack_name)) =>
                \E k \in 1..2 :
                    /\ ~is_server_pack(packs[e[k]].pack_name)
                    /\ lastOp.ret = Some(packs[e[k]].pack_name)

\* find_file has returned the Local entry of a name that a Server pack
\* inserted before the Local pack exposes too
C4_Witness ==
    /\ lastOp.op = "find_file"
    /\ LET e == Exposing(lastOp.name)
       IN  /\ Len(e) = 2
           /\ is_server_pack(packs[e[1]].pack_name)
           /\ ~is_server_pack(packs[e[2]].pack_name)
           /\ lastOp.ret = Some(packs[e[2]].pack_name)

\* C5: when exactly two packs of the same kind (both Local or both Server)
\* expose a name, find_file returned the entry with the longer plaintext,
\* and on equal lengths the entry of the pack inserted first.
C5_LongerOfSameKind ==
    lastOp.op = "find_file" =>
        LET e == Exposing(lastOp.name)
        IN  (Len(e) = 2 /\ is_server_pack(packs[e[1]].pack_name)
                            = is_server_pack(packs[e[2]].pack_name)) =>
                lastOp.ret = Some(packs[IF PlainLenIn(e[2], lastOp.name)
                                              > PlainLenIn(e[1], lastOp.name)
                                        THEN e[2] ELSE e[1]].pack_name)

\* C6: find_file never returned an entry of a pack Base_<lang> with <lang>
\* a known language other than the catalog's.
C6_NoOtherLanguage ==
    (lastOp.op = "find_file" /\ lastOp.ret # None) =>
        LET pack_name == lastOp.ret[1]
        IN  ~(/\ Len(pack_name) = 2
              /\ pack_name[2] \in LanguageStrings
              /\ pack_name[2] # get_language(cc))

\* find_file has acted on a name that a pack of another known language
\* holds
C6_Witness ==
    /\ lastOp.op = "find_file"
    /\ \E i \in 1..Len(packs) :
        /\ Len(packs[i].pack_name) = 2
        /\ packs[i].pack_name[2] \in LanguageStrings
        /\ packs[i].pack_name[2] # get_language(cc)
        /\ FileIndex(packs[i].files, lastOp.name) # 0

\* C7: with catalog language en and a name held by DataLocal, DataLocal_jp
\* and DataLocal_en, find_file returned the entry of DataLocal_en.
C7_MatchingLanguageWins ==
    (/\ lastOp.op = "find_file"
     /\ get_language(cc) = "en"
     /\ \A pack_name \in {<<"DataLocal">>, <<"DataLocal", "jp">>, <<"DataLocal", "en">>} :
            /\ PackIndex(packs, pack_name) # 0
            /\ FileIndex(packs[PackIndex(packs, pack_name)].files, lastOp.name) # 0) =>
        lastOp.ret = Some(<<"DataLocal", "en">>)

\* C27: find_file returned a file whenever at least one pack that is not
\* language-suffixed held the name, for any number of such packs (three or
\* more included).
C27_ReturnsForAnyNumberOfHits ==
    (lastOp.op = "find_file" /\ lastOp.hits >= 1) => lastOp.ret # None

----------------------------------------------------------------------------
(* Properties of writes (Spec) *)

\* C3: for every name written, find_file returns a file and its plaintext
\* is the data of the most recent successful set_file of that name.
C3_ReadObservesLastWrite ==
    \A file_name \in FileNames :
        last_write[file_name] # None =>
            LET found == find_file(packs, file_name)
            IN  /\ found # None
                /\ dec_data(FileOf(packs, found[1], file_name)) = last_write[file_name][1]

\* the Local counterpart of a pack name: Server replaced by Local, known
\* language tags removed
LocalCounterpart(pack_name) ==
    LET base == CASE pack_name[1] = "MapServer" -> "MapLocal"
                  [] pack_name[1] = "ImageDataServer" -> "ImageDataLocal"
                  [] OTHER -> pack_name[1]
    IN  <<base>> \o SelectSeq(Tail(pack_name),
                              LAMBDA t : t \notin {"en", "ja", "ko", "tw", "de", "es",
                                                   "fr", "it", "th"})

\* C8: after a successful set_file on a name that find_file resolved to a
\* file with another plaintext, the data is in the Local counterpart of the
\* pack the file was read from, no file of a Server pack was written, the
\* entry of the source pack, when that is a Server pack, is as it was, and
\* the destination is in modified_packs.
C8_WriteGoesToLocalCounterpart ==
    (/\ lastOp.op \in {"set_file", "set_csv"}
     /\ lastOp.status = "ok"
     /\ lastOp.src # None
     /\ dec_data(lastOp.src_file[1]) # lastOp.data[1]) =>
        LET dest == LocalCounterpart(lastOp.src[1])
            k == PackIndex(packs, dest)
            s == PackIndex(packs, lastOp.src[1])
        IN  /\ k # 0
            /\ ~is_server_pack(dest)
            /\ lastOp.ret = Some(dest)
            /\ FileIndex(packs[k].files, lastOp.name) # 0
            /\ dec_data(FileOf(packs, k, lastOp.name)) = lastOp.data[1]
            /\ \A i \in 1..Len(packs) :
                 is_server_pack(packs[i].pack_name) =>
                     \A j \in 1..Len(packs[i].files) : ~packs[i].files[j].written
            /\ is_server_pack(lastOp.src[1]) =>
                 /\ FileOf(packs, s, lastOp.name).enc_data = lastOp.src_file[1].enc_data
                 /\ dec_data(FileOf(packs, s, lastOp.name)) = dec_data(lastOp.src_file[1])
            /\ dest \in modified_packs

\* set_file has stored in ImageDataLocal new data for a name it read from
\* ImageDataServer
C8_Witness ==
    /\ lastOp.op = "set_file"
    /\ lastOp.status = "ok"
    /\ lastOp.src = Some(<<"ImageDataServer">>)
    /\ dec_data(lastOp.src_file[1]) # lastOp.data[1]
    /\ lastOp.ret = Some(<<"ImageDataLocal">>)

\* the pack a new file belongs to by its extension
ExpectedPack(file_name) ==
    CASE file_name \in {"cat.maanim", "cat.mamodel", "cat.imgcut"} -> <<"ImageDataLocal">>
      [] file_name = "udi.png" -> <<"ImageLocal">>
      [] OTHER -> <<"DataLocal">>

\* C9: a successful set_file on a name find_file did not resolve has put
\* the data in ImageDataLocal for an animation name, in ImageLocal for
\* another .png name and in DataLocal for every other name; where no pack
\* that find_file looks at held the name, find_file now returns the file of
\* that pack.
C9_NewFileRoutedByExtension ==
    (/\ lastOp.op \in {"set_file", "set_csv"}
     /\ lastOp.status = "ok"
     /\ lastOp.src = None) =>
        LET dest == ExpectedPack(lastOp.name)
            k == PackIndex(packs, dest)
        IN  /\ k # 0
            /\ lastOp.ret = Some(dest)
            /\ FileIndex(packs[k].files, lastOp.name) # 0
            /\ dec_data(FileOf(packs, k, lastOp.name)) = lastOp.data[1]
            /\ lastOp.hits = 0 => find_file(packs, lastOp.name) = Some(k)

\* set_file has added an animation file that no pack held
C9_Witness ==
    /\ lastOp.op = "set_file"
    /\ lastOp.status = "ok"
    /\ lastOp.src = None
    /\ lastOp.hits = 0
    /\ lastOp.name = "cat.maanim"
    /\ lastOp.ret = Some(<<"ImageDataLocal">>)

\* C10: after set_csv(name, v), get_csv(name) returns a CSV equal to v.
C10_GetCsvAfterSetCsv ==
    lastOp.op = "set_csv" =>
        get_csv(packs, csv_cache, lastOp.name, Comma, TRUE, TRUE).ret = lastOp.csv

\* set_csv has acted on a name whose cached CSV was another one
C10_Witness ==
    /\ lastOp.op = "set_csv"
    /\ lastOp.status = "ok"
    /\ lastOp.cache_before # None
    /\ lastOp.cache_before # lastOp.csv

\* C11: a write invalidates the CSV cache: after get_csv has cached a parse
\* of a name, a successful set_file of that name leaves the catalog so that
\* get_csv returns the parse of the bytes written.
C11_SetFileInvalidatesCache ==
    (/\ lastOp.op = "set_file"
     /\ lastOp.status = "ok"
     /\ lastOp.cache_before # None) =>
        get_csv(packs, csv_cache, lastOp.name, Comma, TRUE, TRUE).ret
            = Some(CSV(lastOp.data[1], Comma))

----------------------------------------------------------------------------
(* Properties of get_csv under callers that change its result (SpecCsv) *)

\* C12: get_csv returns a copy on a miss as on a hit: after the caller has
\* changed the CSV object get_csv gave it (no set_csv, no set_file), get_csv
\* still returns a CSV equal to the one it returned.
C12_GetCsvReturnsCopy ==
    (held # None /\ held[1].mutated /\ lastOp.op = "none") =>
        get_csv(packs, csv_cache, held[1].name, Comma, TRUE, TRUE).ret
            = Some(held[1].returned)

\* C15: in an ImageDataLocal pack the cipher is the identity and nothing is
\* padded: encrypt() without force_server returns the current plaintext of
\* a file that was added or written, and reading dec_data of a loaded file
\* returns the bytes stored for it.
C15_ImageDataLocalIdentity ==
    (pc = "ready" /\ is_image_data_local_pack(packs[1].pack_name)) =>
        \A i \in 1..Len(packs[1].files) :
            LET f == packs[1].files[i]
            IN  /\ f.written =>
                      encrypt(f, FALSE, None, None) = [ok |-> TRUE, data |-> f.dec[1]]
                /\ (f.enc_data # None /\ ~f.written) => dec_data(f) = f.enc_data[1]

----------------------------------------------------------------------------
(* The cipher of a pack: AesCipher.get_cipher_from_pack for every country, *)
(* game version, pack name, force_server and key and iv given or not       *)

InitCipher == InitWith(CountryCodes, GameVersions, {None, Some(CustomKey)},
                       {None, Some(CustomIv)})

\* AesCipher.get_cipher_from_pack, called with the APK's key and iv
GetCipher(pack_name, force_server) ==
    /\ pack_cipher' = Some([pack_name |-> pack_name, force_server |-> force_server,
                       cipher |-> get_cipher_from_pack(cc, pack_name, gv, force_server,
                                                       apk_key, apk_iv)])
    /\ UNCHANGED <<catalogVars, index, index_type, catVars, modVars>>

NextCipher == \E pack_name \in ApkPackNames, force_server \in BOOLEAN :
                  GetCipher(pack_name, force_server)

SpecCipher == InitCipher /\ [][NextCipher]_vars

\* the call selects the server cipher
ServerCase ==
    \/ is_server_pack(pack_cipher[1].pack_name)
    \/ gv_lt_8_9_0(gv)
    \/ pack_cipher[1].force_server

\* C16: get_cipher_from_pack selects ECB with the fixed legacy key and no iv
\* exactly when the pack is a Server pack, the game version is below 8.9.0
\* or force_server is set; otherwise it selects CBC, with the caller's key
\* and iv where given and the CountryCode's where not.
C16_CipherDerivation ==
    pack_cipher # None =>
        LET c == pack_cipher[1].cipher
        IN  /\ (c.mode = MODE_ECB /\ c.key = LegacyKey /\ c.iv = None) <=> ServerCase
            /\ ~ServerCase =>
                 /\ c.mode = MODE_CBC
                 /\ c.key = IF apk_key # None THEN apk_key[1] ELSE get_key_iv_from_cc(cc)[1]
                 /\ c.iv = Some(IF apk_iv # None THEN apk_iv[1] ELSE get_key_iv_from_cc(cc)[2])

\* the cipher of a Local pack was derived with force_server set
C16_Witness ==
    /\ pack_cipher # None
    /\ pack_cipher[1].force_server
    /\ ~is_server_pack(pack_cipher[1].pack_name)
    /\ ~gv_lt_8_9_0(gv)
    /\ apk_key # None
    /\ pack_cipher[1].cipher.mode = MODE_ECB

----------------------------------------------------------------------------
(* Importing a mod: Cats.import_cats and Maps.import_maps.  A record (Cat, *)
(* Map) is what its __eq__ compares, here two of its fields: the hp and    *)
(* the attack_1.damage of a form's Stats.                                  *)

\* the records: the base game's, mod A's (hp changed) and mod B's (damage
\* changed, hp as in the base game)
RecordValues ==
    {[hp |-> 100, damage |-> 10], [hp |-> 200, damage |-> 10], [hp |-> 100, damage |-> 50]}

\* Cats.import_cats: self.cats afterwards
import_cats(self_cats, other, gd_cats) ==
    [cat_id \in DOMAIN self_cats |->
        IF other[cat_id] = None THEN self_cats[cat_id]
        ELSE IF gd_cats[cat_id] # None
        THEN IF gd_cats[cat_id] # other[cat_id] THEN gd_cats[cat_id] ELSE self_cats[cat_id]
        ELSE other[cat_id]]

\* Maps.import_maps: self.maps afterwards
import_maps(self_maps, other, gd_maps) ==
    [id \in DOMAIN self_maps |->
        IF other[id] = None THEN self_maps[id]
        ELSE IF gd_maps[id] # None
        THEN IF gd_maps[id] # other[id] THEN other[id] ELSE self_maps[id]
        ELSE other[id]]

\* the game data holds the base game's record for some ids
InitImport ==
    /\ CatalogInit({"en"}, {"modern"}, {None}, {None})
    /\ index = 0
    /\ index_type = None
    /\ pack_cipher = None
    /\ CatIdle
    /\ UiIdle
    /\ cats = EmptyRecords
    /\ maps = EmptyRecords
    /\ gd_records \in [DOMAIN EmptyRecords -> {None, Some([hp |-> 100, damage |-> 10])}]
    /\ last_import = None
    /\ table = <<>>
    /\ last_apply = None

\* Cats.import_cats(other, game_data)
ImportCats(other) ==
    /\ cats' = import_cats(cats, other, gd_records)
    /\ last_import' = Some([kind |-> "cats", other |-> other, before |-> cats])
    /\ UNCHANGED <<catalogVars, index, index_type, pack_cipher, catVars, uiVars, maps, gd_records, table, last_apply>>

\* Maps.import_maps(other, game_data)
ImportMaps(other) ==
    /\ maps' = import_maps(maps, other, gd_records)
    /\ last_import' = Some([kind |-> "maps", other |-> other, before |-> maps])
    /\ UNCHANGED <<catalogVars, index, index_type, pack_cipher, catVars, uiVars, cats, gd_records, table, last_apply>>

NextImport ==
    \E other \in [DOMAIN EmptyRecords -> {None} \cup {Some(r) : r \in RecordValues}] :
        \/ ImportCats(other)
        \/ ImportMaps(other)

SpecImport == InitImport /\ [][NextImport]_vars

\* the receiver of the last import, as the import left it
Receiver == IF last_import[1].kind = "cats" THEN cats ELSE maps

\* C21: after import_cats of a mod's record M on the current record S with
\* the game data's record B, every field of the result is M's where M's
\* differs from B's and S's otherwise.
C21_ThreeWayMerge ==
    (last_import # None /\ last_import[1].kind = "cats") =>
        \A id \in DOMAIN cats :
            LET M == last_import[1].other[id]
                S == last_import[1].before[id]
                B == gd_records[id]
            IN  (M # None /\ S # None /\ B # None) =>
                    /\ cats[id] # None
                    /\ cats[id][1].hp = IF M[1].hp # B[1].hp THEN M[1].hp ELSE S[1].hp
                    /\ cats[id][1].damage
                           = IF M[1].damage # B[1].damage THEN M[1].damage ELSE S[1].damage

\* C29: import_cats and import_maps apply one rule: an id the incoming
\* collection lacks is left alone; an incoming record that differs from the
\* game data's (or has none there) becomes the receiver's; one that equals
\* the game data's leaves the receiver's entry unchanged.
C29_SameImportRule ==
    last_import # None =>
        \A id \in DOMAIN Receiver :
            LET M == last_import[1].other[id]
                S == last_import[1].before[id]
                B == gd_records[id]
            IN  Receiver[id] = IF M = None THEN S
                               ELSE IF B = None \/ B # M THEN M
                               ELSE S

----------------------------------------------------------------------------
(* Writing a collection record to its CSV: MapOptions.to_game_data,        *)
(* StageOption.to_game_data, Talents.to_game_data.  A line is <<key,       *)
(* value>>: the id in its first cell and the rest of its cells; a record   *)
(* owns the keys of its dict (options, sets, talents).                     *)

\* lines the CSV holds at most before a record is written to it
MaxLines == 3

\* the loop over the lines of the CSV from position i (1-based) on:
\* [ok, lines, remaining], ok = FALSE for the KeyError of `del remaining[key]`.
\* in_self: the line is skipped unless its key is in the record's dict
\* (MapOptions, Talents); otherwise unless it is in remaining (StageOption).
RECURSIVE to_game_data_loop(_, _, _, _, _)
to_game_data_loop(lines, i, own, remaining, in_self) ==
    IF i > Len(lines) THEN [ok |-> TRUE, lines |-> lines, remaining |-> remaining]
    ELSE LET key == lines[i][1]
             owned == IF in_self THEN key \in DOMAIN own /\ own[key] # None
                      ELSE key \in DOMAIN remaining /\ remaining[key] # None
         IN  IF ~owned THEN to_game_data_loop(lines, i + 1, own, remaining, in_self)
             ELSE IF remaining[key] = None
             THEN [ok |-> FALSE, lines |-> lines, remaining |-> remaining]
             ELSE to_game_data_loop([lines EXCEPT ![i] = <<key, own[key][1]>>], i + 1, own,
                                    [remaining EXCEPT ![key] = None], in_self)

\* the loop over remaining.values(): a line added for every key left
RECURSIVE add_remaining(_, _, _)
add_remaining(lines, remaining, key) ==
    IF key \notin DOMAIN remaining THEN lines
    ELSE add_remaining(IF remaining[key] = None THEN lines
                       ELSE Append(lines, <<key, remaining[key][1]>>),
                       remaining, key + 1)

\* MapOptions.to_game_data, Talents.to_game_data (the first line is the
\* header) and StageOption.to_game_data (no header): [ok, lines], lines the
\* CSV handed to set_file
collection_to_game_data(kind, own, lines) ==
    LET first == IF kind = "StageOption" THEN 1 ELSE 2
        r == to_game_data_loop(lines, first, own, own, kind # "StageOption")
    IN  IF r.ok THEN [ok |-> TRUE, lines |-> add_remaining(r.lines, r.remaining, 0)]
        ELSE [ok |-> FALSE, lines |-> lines]

\* the CSV of the game data: a header line where the file has one, then at
\* most MaxLines lines
InitApply ==
    /\ CatalogInit({"en"}, {"modern"}, {None}, {None})
    /\ index = 0
    /\ index_type = None
    /\ pack_cipher = None
    /\ CatIdle
    /\ UiIdle
    /\ cats = EmptyRecords
    /\ maps = EmptyRecords
    /\ gd_records = EmptyRecords
    /\ last_import = None
    /\ \E n \in 0..MaxLines :
           table \in [1..n -> (DOMAIN EmptyRecords) \X {7, 8}]
    /\ last_apply = None

\* to_game_data of a collection record; an exception leaves the game data
\* as it was, set_file not reached
ToGameData(kind, own) ==
    /\ \E r \in {collection_to_game_data(kind, own, table)} :
           /\ table' = IF r.ok THEN r.lines ELSE table
           /\ last_apply' = Some([kind |-> kind, own |-> own, before |-> table, ok |-> r.ok])
    /\ UNCHANGED <<catalogVars, index, index_type, pack_cipher, catVars, uiVars, cats,
                   maps, gd_records, last_import>>

NextApply ==
    \E kind \in {"MapOptions", "StageOption", "Talents"},
       own \in [DOMAIN EmptyRecords -> {None, Some(9)}] : ToGameData(kind, own)

SpecApply == InitApply /\ [][NextApply]_vars

\* the positions of the lines of the CSV before the call that carry a key
KeyedLines ==
    {i \in 1..Len(last_apply[1].before) :
        last_apply[1].kind = "StageOption" \/ i > 1}

\* C22: to_game_data of a collection record leaves every line whose key
\* the record does not own as it was and where it was, rewrites in place
\* every line whose key it owns, and adds at the end one line for each
\* owned key the CSV did not have, whatever the CSV held.
C22_PreservesUnownedLines ==
    last_apply # None =>
        LET before == last_apply[1].before
            own == last_apply[1].own
            owns(key) == own[key] # None
            missing == {key \in DOMAIN own :
                           owns(key) /\ \A i \in KeyedLines : before[i][1] # key}
        IN  /\ last_apply[1].ok
            /\ Len(table) = Len(before) + Cardinality(missing)
            /\ \A i \in 1..Len(before) :
                   table[i] = IF i \in KeyedLines /\ owns(before[i][1])
                              THEN <<before[i][1], own[before[i][1]][1]>>
                              ELSE before[i]
            /\ \A key \in missing :
                   \E i \in (Len(before) + 1)..Len(table) : table[i] = <<key, own[key][1]>>

----------------------------------------------------------------------------
(* Properties of to_packs_lists (SpecEmit) *)

\* the names of the packs a to_packs_lists call returned, in order
EmittedNames == [i \in 1..Len(emitted[1].lists) |-> emitted[1].lists[i].pack_name]

\* the packs that were marked dirty when to_packs_lists was called
DirtyAtCall ==
    {emitted[1].packs[i].pack_name : i \in {k \in 1..Len(emitted[1].packs) :
        \/ emitted[1].packs[k].pack_name \in emitted[1].modified_packs
        \/ emitted[1].packs[k].modified}}

\* C13: to_packs_lists never returns a Server pack, whatever its arguments;
\* called without key and iv it returns exactly the packs marked dirty that
\* are not Server packs, in the catalog's order.
C13_OnlyDirtyLocalPacks ==
    emitted # None =>
        /\ \A i \in 1..Len(EmittedNames) : ~is_server_pack(EmittedNames[i])
        /\ (emitted[1].key = None /\ emitted[1].iv = None) =>
               EmittedNames
                   = SelectSeq([i \in 1..Len(emitted[1].packs) |->
                                    emitted[1].packs[i].pack_name],
                               LAMBDA n : n \in DirtyAtCall /\ ~is_server_pack(n))

\* to_packs_lists() has been called on a catalog with a Server pack marked
\* dirty and a Local pack not marked dirty, and has returned neither
C13_Witness ==
    /\ emitted # None
    /\ emitted[1].key = None
    /\ emitted[1].iv = None
    /\ \E n \in DirtyAtCall : is_server_pack(n)
    /\ \E i \in 1..Len(emitted[1].packs) :
           /\ ~is_server_pack(emitted[1].packs[i].pack_name)
           /\ emitted[1].packs[i].pack_name \notin DirtyAtCall
    /\ emitted[1].lists = <<>>

\* what one set_file call (the step that counts a write) did to the catalog:
\* at most one pack name joined modified_packs, none when the data was the
\* plaintext of the file found; at most one (pack, name) changed plaintext
SetFileTouchesOneFile ==
    ops' = ops + 1 =>
        LET gone == PlaintextOf(packs) \ PlaintextOf(packs')
            come == PlaintextOf(packs') \ PlaintextOf(packs)
        IN  /\ modified_packs \subseteq modified_packs'
            /\ Cardinality(modified_packs' \ modified_packs) <= 1
            /\ (/\ lastOp'.src_file # None
                /\ dec_data(lastOp'.src_file[1]) = lastOp'.data[1]) =>
                   modified_packs' = modified_packs
            /\ Cardinality(come) <= 1
            /\ Cardinality(gone) <= 1
            /\ \A g \in gone : \E c \in come : c[1] = g[1] /\ c[2] = g[2]

\* in every pack to_packs_lists returned for a catalog that has seen no more
\* than a single set_file since it was loaded, the entries other than the
\* file set_file was called on are the ciphertext the pack was loaded with
UntouchedEntriesKept ==
    (emitted # None /\ ops <= 1) =>
        \A k \in 1..Len(emitted[1].lists) :
            LET out == emitted[1].lists[k]
                pack == emitted[1].packs[PackIndex(emitted[1].packs, out.pack_name)]
            IN  /\ out.ok
                /\ Len(out.pack_data) = Len(pack.files)
                /\ \A j \in 1..Len(pack.files) :
                       ~(/\ lastOp.op = "set_file"
                         /\ lastOp.ret = Some(pack.pack_name)
                         /\ lastOp.name = pack.files[j].file_name) =>
                           /\ pack.files[j].enc_data = Some(out.pack_data[j])
                           /\ \E data \in Plaintexts :
                                  out.pack_data[j] = Stored(pack.pack_name, data)

C14_ReencryptedUnderNewKey ==
    (emitted # None /\ (emitted[1].key # None \/ emitted[1].iv # None)
                    /\ ~gv_lt_8_9_0(gv)) =>
        \A i \in 1..Len(emitted[1].packs) :
            LET pack == emitted[1].packs[i]
            IN  ~is_server_pack(pack.pack_name) =>
                    \E k \in 1..Len(emitted[1].lists) :
                        LET out == emitted[1].lists[k]
                        IN  /\ out.pack_name = pack.pack_name
                            /\ out.ok
                            /\ Len(out.pack_data) = Len(pack.files)
                            /\ ~is_image_data_local_pack(pack.pack_name) =>
                                 \A j \in 1..Len(pack.files) :
                                     out.pack_data[j]
                                         = AesEncrypt(
                                               get_cipher_from_pack(cc, pack.pack_name, gv,
                                                   FALSE, emitted[1].key, emitted[1].iv),
                                               pad_pkcs7(dec_data(pack.files[j])))

----------------------------------------------------------------------------
(* map.py: MapIndexType *)

\* class MapIndexType(enum.Enum), in the order of its declaration
MapIndexType ==
    << [name |-> "SOL", value |-> 0],
       [name |-> "REGULAR_EVENT", value |-> 1000],
       [name |-> "COLLAB", value |-> 2000],
       [name |-> "STORY", value |-> 3000],
       [name |-> "EXTRA", value |-> 4000],
       [name |-> "DOJO_CATCLAW", value |-> 6000],
       [name |-> "TOWER", value |-> 7000],
       [name |-> "CHALLENGE", value |-> 12000],
       [name |-> "UNCANNY", value |-> 13000],
       [name |-> "DRINK", value |-> 14000],
       [name |-> "LEGEND_QUEST", value |-> 16000],
       [name |-> "OUTBREAKS_EOC", value |-> 20000],
       [name |-> "OUTBREAKS_ITF", value |-> 21000],
       [name |-> "OUTBREAKS_COTC", value |-> 22000],
       [name |-> "FILIBUSTER", value |-> 23000],
       [name |-> "GAUNTLET", value |-> 24000],
       [name |-> "ENGIMA", value |-> 25000],
       [name |-> "COLLAB_GAUNTLET", value |-> 27000],
       [name |-> "BEHEMOTH", value |-> 31000] >>

\* sorted(MapIndexType, key=lambda x: x.value): a stable insertion sort
RECURSIVE sorted_by_value(_)
sorted_by_value(s) ==
    IF s = <<>> THEN <<>>
    ELSE LET rest == sorted_by_value(SubSeq(s, 1, Len(s) - 1))
             x == s[Len(s)]
             before == SelectSeq(rest, LAMBDA y : y.value <= x.value)
             after == SelectSeq(rest, LAMBDA y : y.value > x.value)
         IN  before \o <<x>> \o after

\* list[k] in Python: a negative k counts from the end of the list
PyItem(list, k) == IF k < 0 THEN list[Len(list) + k + 1] ELSE list[k + 1]

\* the loop of MapIndexType.from_index from position i on
RECURSIVE from_index_loop(_, _, _)
from_index_loop(types_sorted, idx, i) ==
    IF i >= Len(types_sorted) THEN None
    ELSE IF idx < PyItem(types_sorted, i).value
    THEN Some(PyItem(types_sorted, i - 1).name)
    ELSE IF idx = PyItem(types_sorted, i).value
    THEN Some(PyItem(types_sorted, i).name)
    ELSE from_index_loop(types_sorted, idx, i + 1)

\* MapIndexType.from_index
from_index(idx) == from_index_loop(sorted_by_value(MapIndexType), idx, 0)

\* the indices from_index is called with: the map ids up to MaxIndex and
\* the first NegativeIndices integers below zero
NegativeIndices == 3
MaxIndex == 31999
MapIndices == (0 - NegativeIndices)..MaxIndex

InitMap ==
    /\ CatalogInit({"en"}, {"modern"}, {None}, {None})
    /\ index \in MapIndices
    /\ index_type = None
    /\ pack_cipher = None
    /\ CatIdle
    /\ ModIdle

\* a call of MapIndexType.from_index
FromIndex ==
    /\ index_type' = Some(from_index(index))
    /\ UNCHANGED <<catalogVars, index, pack_cipher, catVars, modVars>>

NextMap == FromIndex

SpecMap == InitMap /\ [][NextMap]_vars

----------------------------------------------------------------------------
(* cats.py: Stats *)

\* bool(int) and int(bool)
bool(x) == x # 0
int(b) == IF b THEN 1 ELSE 0

\* list[lo:hi] in Python, 0 <= lo <= hi <= len(list)
PySlice(list, lo, hi) == SubSeq(list, lo + 1, hi)

\* [x] * n in Python: the empty list for n <= 0
PyRepeat(x, n) == IF n <= 0 THEN <<>> ELSE [i \in 1..n |-> x]

\* unit.Frames.from_pair_frames and unit.Frames.pair_frames: a pair is two
\* frames
Frames_from_pair_frames(pair) == [frames |-> pair * 2]
pair_frames(f) == f.frames \div 2

\* unit.EvolveItems.from_unit_buy_list and unit.EvolveItems.to_list: the
\* item slots of the unit buy row, between evolve_cost (27) and unknown_48
EvolveItems_from_unit_buy_list(raw_data) == [items |-> PySlice(raw_data, 28, 48)]
to_list(evolve_items) == evolve_items.items

\* Stats.extend with the list padded with ones
Stats_extend_ones(raw_data) == raw_data \o PyRepeat(1, 108 - Len(raw_data))

\* Stats.extend
Stats_extend(raw_data) == raw_data \o PyRepeat(0, 108 - Len(raw_data))

\* Stats.assign: the attributes it sets.  A value class of unit.py
\* (Speed, Range, Frames, Prob, Attack, Wave, ...) is the record of what its
\* from_raw, from_values or constructor is given, under the attribute names
\* to_raw_data reads back.
Stats_assign(raw_data) ==
    [ hp |-> PyItem(raw_data, 0),
      kbs |-> PyItem(raw_data, 1),
      speed |-> [raw |-> PyItem(raw_data, 2)],
      attack_interval |-> Frames_from_pair_frames(PyItem(raw_data, 4)),
      range |-> [raw |-> PyItem(raw_data, 5)],
      cost |-> PyItem(raw_data, 6),
      recharge_time |-> Frames_from_pair_frames(PyItem(raw_data, 7)),
      collision_start |-> PyItem(raw_data, 8),
      collision_width |-> [raw |-> PyItem(raw_data, 9)],
      target_red |-> bool(PyItem(raw_data, 10)),
      unused |-> PyItem(raw_data, 11),
      area_attack |-> bool(PyItem(raw_data, 12)),
      z_layers |-> [min |-> PyItem(raw_data, 14), max |-> PyItem(raw_data,
          15)],
      target_floating |-> bool(PyItem(raw_data, 16)),
      target_black |-> bool(PyItem(raw_data, 17)),
      target_metal |-> bool(PyItem(raw_data, 18)),
      target_traitless |-> bool(PyItem(raw_data, 19)),
      target_angel |-> bool(PyItem(raw_data, 20)),
      target_alien |-> bool(PyItem(raw_data, 21)),
      target_zombie |-> bool(PyItem(raw_data, 22)),
      strong |-> bool(PyItem(raw_data, 23)),
      knockback |-> [prob |-> [percent |-> PyItem(raw_data, 24)]],
      freeze |-> [prob |-> [percent |-> PyItem(raw_data, 25)], time |->
          [frames |-> PyItem(raw_data, 26)]],
      slow |-> [prob |-> [percent |-> PyItem(raw_data, 27)], time |-> [frames
          |-> PyItem(raw_data, 28)]],
      resistant |-> bool(PyItem(raw_data, 29)),
      massive_damage |-> bool(PyItem(raw_data, 30)),
      crit |-> [prob |-> [percent |-> PyItem(raw_data, 31)]],
      attacks_only |-> bool(PyItem(raw_data, 32)),
      extra_money |-> bool(PyItem(raw_data, 33)),
      base_destroyer |-> bool(PyItem(raw_data, 34)),
      wave |-> [prob |-> [percent |-> PyItem(raw_data, 35)], level |->
          PyItem(raw_data, 36), is_mini |-> bool(PyItem(raw_data, 94))],
      weaken |-> [prob |-> [percent |-> PyItem(raw_data, 37)], time |->
          [frames |-> PyItem(raw_data, 38)], multiplier |-> PyItem(raw_data,
          39)],
      strengthen |-> [hp_percent |-> PyItem(raw_data, 40), multiplier_percent
          |-> PyItem(raw_data, 41)],
      lethal_strike |-> [prob |-> [percent |-> PyItem(raw_data, 42)]],
      is_metal |-> bool(PyItem(raw_data, 43)),
      wave_immunity |-> bool(PyItem(raw_data, 46)),
      wave_blocker |-> bool(PyItem(raw_data, 47)),
      knockback_immunity |-> bool(PyItem(raw_data, 48)),
      freeze_immunity |-> bool(PyItem(raw_data, 49)),
      slow_immunity |-> bool(PyItem(raw_data, 50)),
      weaken_immunity |-> bool(PyItem(raw_data, 51)),
      zombie_killer |-> bool(PyItem(raw_data, 52)),
      witch_killer |-> bool(PyItem(raw_data, 53)),
      target_witch |-> bool(PyItem(raw_data, 54)),
      shockwave_immune |-> bool(PyItem(raw_data, 56)),
      time_before_death |-> [frames |-> PyItem(raw_data, 57)],
      attack_state |-> [attacks_before |-> PyItem(raw_data, 55), state_id |->
          PyItem(raw_data, 58)],
      attack_1 |-> [damage |-> PyItem(raw_data, 3), foreswing |-> [frames |->
          PyItem(raw_data, 13)], use_ability |-> bool(PyItem(raw_data, 63)),
          long_distance_flag |-> TRUE, long_distance_start |-> [raw |->
          PyItem(raw_data, 44)], long_distance_range |-> [raw |->
          PyItem(raw_data, 45)]],
      attack_2 |-> [damage |-> PyItem(raw_data, 59), foreswing |-> [frames |->
          PyItem(raw_data, 61)], use_ability |-> bool(PyItem(raw_data, 64)),
          long_distance_flag |-> bool(PyItem(raw_data, 99)),
          long_distance_start |-> [raw |-> PyItem(raw_data, 100)],
          long_distance_range |-> [raw |-> PyItem(raw_data, 101)]],
      attack_3 |-> [damage |-> PyItem(raw_data, 60), foreswing |-> [frames |->
          PyItem(raw_data, 62)], use_ability |-> bool(PyItem(raw_data, 65)),
          long_distance_flag |-> bool(PyItem(raw_data, 102)),
          long_distance_start |-> [raw |-> PyItem(raw_data, 103)],
          long_distance_range |-> [raw |-> PyItem(raw_data, 104)]],
      spawn_anim |-> [model_id |-> PyItem(raw_data, 66), has_entry_maanim |->
          bool(PyItem(raw_data, 68))],
      soul_anim |-> [model_id |-> PyItem(raw_data, 67), has_death_maanim |->
          bool(PyItem(raw_data, 69))],
      barrier_breaker |-> [prob |-> [percent |-> PyItem(raw_data, 70)]],
      warp |-> [prob |-> [percent |-> PyItem(raw_data, 71)], time |-> [frames
          |-> PyItem(raw_data, 72)], min_distance |-> PyItem(raw_data, 73),
          max_distance |-> PyItem(raw_data, 74)],
      warp_blocker |-> bool(PyItem(raw_data, 75)),
      target_eva |-> bool(PyItem(raw_data, 76)),
      eva_killer |-> bool(PyItem(raw_data, 77)),
      target_relic |-> bool(PyItem(raw_data, 78)),
      curse_immunity |-> bool(PyItem(raw_data, 79)),
      insanely_tough |-> bool(PyItem(raw_data, 80)),
      insane_damage |-> bool(PyItem(raw_data, 81)),
      savage_blow |-> [prob |-> [percent |-> PyItem(raw_data, 82)], multiplier
          |-> PyItem(raw_data, 83)],
      dodge |-> [prob |-> [percent |-> PyItem(raw_data, 84)], time |-> [frames
          |-> PyItem(raw_data, 85)]],
      surge |-> [prob |-> [percent |-> PyItem(raw_data, 86)], start |-> [raw
          |-> PyItem(raw_data, 87)], range |-> [raw |-> PyItem(raw_data, 88)],
          level |-> PyItem(raw_data, 89)],
      toxic_immunity |-> bool(PyItem(raw_data, 90)),
      surge_immunity |-> bool(PyItem(raw_data, 91)),
      curse |-> [prob |-> [percent |-> PyItem(raw_data, 92)], time |-> [frames
          |-> PyItem(raw_data, 93)]],
      shield_pierce |-> [prob |-> [percent |-> PyItem(raw_data, 95)]],
      target_aku |-> bool(PyItem(raw_data, 96)),
      collossus_slayer |-> bool(PyItem(raw_data, 97)),
      soul_strike |-> bool(PyItem(raw_data, 98)),
      behemoth_slayer |-> bool(PyItem(raw_data, 105)),
      behemoth_dodge |-> [prob |-> [percent |-> PyItem(raw_data, 106)], time
          |-> [frames |-> PyItem(raw_data, 107)]] ]

\* Stats.to_raw_data
Stats_to_raw_data(s) ==
       <<s.hp, s.kbs, s.speed.raw, s.attack_1.damage,
       pair_frames(s.attack_interval), s.range.raw, s.cost,
       pair_frames(s.recharge_time), s.collision_start,
       s.collision_width.raw, int(s.target_red), s.unused,
       int(s.area_attack), s.attack_1.foreswing.frames, s.z_layers.min,
       s.z_layers.max, int(s.target_floating), int(s.target_black),
       int(s.target_metal), int(s.target_traitless), int(s.target_angel),
       int(s.target_alien), int(s.target_zombie), int(s.strong),
       s.knockback.prob.percent, s.freeze.prob.percent,
       s.freeze.time.frames, s.slow.prob.percent, s.slow.time.frames,
       int(s.resistant), int(s.massive_damage), s.crit.prob.percent,
       int(s.attacks_only), int(s.extra_money), int(s.base_destroyer),
       s.wave.prob.percent, s.wave.level, s.weaken.prob.percent,
       s.weaken.time.frames, s.weaken.multiplier, s.strengthen.hp_percent,
       s.strengthen.multiplier_percent, s.lethal_strike.prob.percent,
       int(s.is_metal), s.attack_1.long_distance_start.raw,
       s.attack_1.long_distance_range.raw, int(s.wave_immunity),
       int(s.wave_blocker), int(s.knockback_immunity),
       int(s.freeze_immunity), int(s.slow_immunity), int(s.weaken_immunity),
       int(s.zombie_killer), int(s.witch_killer), int(s.target_witch),
       s.attack_state.attacks_before, int(s.shockwave_immune),
       s.time_before_death.frames, s.attack_state.state_id,
       s.attack_2.damage, s.attack_3.damage, s.attack_2.foreswing.frames,
       s.attack_3.foreswing.frames, int(s.attack_1.use_ability),
       int(s.attack_2.use_ability), int(s.attack_3.use_ability),
       s.spawn_anim.model_id, s.soul_anim.model_id,
       int(s.spawn_anim.has_entry_maanim),
       int(s.soul_anim.has_death_maanim), s.barrier_breaker.prob.percent,
       s.warp.prob.percent, s.warp.time.frames, s.warp.min_distance,
       s.warp.max_distance, int(s.warp_blocker), int(s.target_eva),
       int(s.eva_killer), int(s.target_relic), int(s.curse_immunity),
       int(s.insanely_tough), int(s.insane_damage),
       s.savage_blow.prob.percent, s.savage_blow.multiplier,
       s.dodge.prob.percent, s.dodge.time.frames, s.surge.prob.percent,
       s.surge.start.raw, s.surge.range.raw, s.surge.level,
       int(s.toxic_immunity), int(s.surge_immunity), s.curse.prob.percent,
       s.curse.time.frames, int(s.wave.is_mini),
       s.shield_pierce.prob.percent, int(s.target_aku),
       int(s.collossus_slayer), int(s.soul_strike),
       int(s.attack_2.long_distance_flag),
       s.attack_2.long_distance_start.raw,
       s.attack_2.long_distance_range.raw,
       int(s.attack_3.long_distance_flag),
       s.attack_3.long_distance_start.raw,
       s.attack_3.long_distance_range.raw, int(s.behemoth_slayer),
       s.behemoth_dodge.prob.percent, s.behemoth_dodge.time.frames>>

\* Stats.__init__
Stats(cat_id, form, raw_data) ==
    [cat_id |-> cat_id, form |-> form, fields |-> Stats_assign(Stats_extend(raw_data))]

\* Stats.__eq__
Stats_eq(a, b) == Stats_to_raw_data(a.fields) = Stats_to_raw_data(b.fields)

----------------------------------------------------------------------------
(* cats.py: UnitBuyData *)

\* UnitBuyData.extend
UnitBuyData_extend(raw_data) == raw_data \o PyRepeat(0, 63 - Len(raw_data))

\* UnitBuyData.assign: the attributes it sets.  Rarity(v) and
\* GatchaRarity(v) are the enum members of value v.
UnitBuyData_assign(raw_data) ==
    [ stage_unlock |-> PyItem(raw_data, 0),
      purchase_cost |-> PyItem(raw_data, 1),
      upgrade_costs |-> PySlice(raw_data, 2, 12),
      unlock_source |-> PyItem(raw_data, 12),
      rarity |-> [value |-> PyItem(raw_data, 13)],
      position_order |-> PyItem(raw_data, 14),
      chapter_unlock |-> PyItem(raw_data, 15),
      sell_price |-> PyItem(raw_data, 16),
      gatya_rarity |-> [value |-> PyItem(raw_data, 17)],
      original_max_level |-> PyItem(raw_data, 18),
      unknown_19 |-> PyItem(raw_data, 19),
      force_true_form_level |-> PyItem(raw_data, 20),
      second_form_levels |-> <<PyItem(raw_data, 21), PyItem(raw_data, 22)>>,
      true_form_id |-> PyItem(raw_data, 23),
      unknown_24 |-> PyItem(raw_data, 24),
      third_form_levels |-> <<PyItem(raw_data, 25), PyItem(raw_data, 26)>>,
      evolve_cost |-> PyItem(raw_data, 27),
      evolve_items |-> EvolveItems_from_unit_buy_list(raw_data),
      unknown_48 |-> PyItem(raw_data, 48),
      max_upgrade_level_no_catseye |-> PyItem(raw_data, 49),
      max_upgrade_level_catseye |-> PyItem(raw_data, 50),
      max_plus_upgrade_level |-> PyItem(raw_data, 51),
      unknown_52 |-> PyItem(raw_data, 52),
      unknown_53 |-> PyItem(raw_data, 53),
      unknown_54 |-> PyItem(raw_data, 54),
      unknown_55 |-> PyItem(raw_data, 55),
      evolve_count |-> PyItem(raw_data, 56),
      game_version |-> PyItem(raw_data, 57),
      np_sell_price |-> PyItem(raw_data, 58),
      unknown_59 |-> PyItem(raw_data, 59),
      unknown_60 |-> PyItem(raw_data, 60),
      unknown_61 |-> PyItem(raw_data, 61),
      unknown_62 |-> PyItem(raw_data, 62) ]

\* UnitBuyData.to_raw_data
UnitBuyData_to_raw_data(s) ==
       <<s.stage_unlock, s.purchase_cost>>
    \o
       s.upgrade_costs
    \o
       <<s.unlock_source, s.rarity.value, s.position_order,
       s.chapter_unlock, s.sell_price, s.gatya_rarity.value,
       s.original_max_level, s.unknown_19, s.force_true_form_level>>
    \o
       s.second_form_levels
    \o
       <<s.true_form_id, s.unknown_24>>
    \o
       s.third_form_levels
    \o
       <<s.evolve_cost>>
    \o
       to_list(s.evolve_items)
    \o
       <<s.unknown_48, s.max_upgrade_level_no_catseye,
       s.max_upgrade_level_catseye, s.max_plus_upgrade_level, s.unknown_52,
       s.unknown_53, s.unknown_54, s.unknown_55, s.evolve_count,
       s.game_version, s.np_sell_price, s.unknown_59, s.unknown_60,
       s.unknown_61, s.unknown_62>>

\* UnitBuyData.__init__ raises: Rarity has the values 0..5 and GatchaRarity
\* the values 0..4, and an enum constructor raises ValueError for any other
UnitBuyData_raises(raw_data) ==
    \/ PyItem(UnitBuyData_extend(raw_data), 13) \notin 0..5
    \/ PyItem(UnitBuyData_extend(raw_data), 17) \notin 0..4

\* UnitBuyData.__init__
UnitBuyData(cat_id, raw_data) ==
    [cat_id |-> cat_id, fields |-> UnitBuyData_assign(UnitBuyData_extend(raw_data))]

\* UnitBuyData.__eq__
UnitBuyData_eq(a, b) == UnitBuyData_to_raw_data(a.fields) = UnitBuyData_to_raw_data(b.fields)

\* UnitBuyData.set_obtainable that leaves game_version alone when obtainable
UnitBuyData_set_obtainable_kept(d, obtainable) ==
    IF ~obtainable
    THEN [d EXCEPT !.fields.game_version = -1]
    ELSE d

\* UnitBuyData.set_obtainable
UnitBuyData_set_obtainable(d, obtainable) ==
    IF ~obtainable
    THEN [d EXCEPT !.fields.game_version = -1]
    ELSE [d EXCEPT !.fields.game_version = IF @ = -1 THEN 0 ELSE @]

\* UnitBuyData.is_obtainable
UnitBuyData_is_obtainable(d) == d.fields.game_version # -1

----------------------------------------------------------------------------
(* cats.py: NyankoPictureBookData, Cat *)

\* NyankoPictureBookData.__init__
NyankoPictureBookData(cat_id, obtainable, limited, total_forms, unknown, scale_0, scale_1, scale_2, scale_3, other) ==
    [cat_id |-> cat_id, obtainable |-> obtainable, limited |-> limited,
     total_forms |-> total_forms, unknown |-> unknown, scale_0 |-> scale_0,
     scale_1 |-> scale_1, scale_2 |-> scale_2, scale_3 |-> scale_3, other |-> other]

\* NyankoPictureBookData.set_obtainable
Nyanko_set_obtainable(d, obtainable) == [d EXCEPT !.obtainable = obtainable]

\* NyankoPictureBookData.is_obtainable
Nyanko_is_obtainable(d) == d.obtainable

----------------------------------------------------------------------------
(* The records of a cat: Stats and UnitBuyData built from a row, and       *)
(* Cat.set_obtainable                                                      *)

\* the longest row read
MaxRow == 108

\* the rows of at most MaxRow integers: slot k holds 1 or 3 in every slot,
\* the slot's number, or -1, 0, 1 in turn
RawRows ==
    LET SlotValue(p, k) == CASE p = "one" -> 1
                             [] p = "three" -> 3
                             [] p = "slot" -> k
                             [] p = "cycle" -> (k % 3) - 1
    IN  {[i \in 1..n |-> SlotValue(p, i - 1)] :
             n \in 0..MaxRow, p \in {"one", "three", "slot", "cycle"}}

InitCat ==
    /\ CatalogInit({"en"}, {"modern"}, {None}, {None})
    /\ index = 0
    /\ index_type = None
    /\ pack_cipher = None
    /\ raw_row \in RawRows
    /\ stats = None
    /\ unit_buy_data = None
    /\ \E obtainable \in BOOLEAN :
           nyanko_picture_book_data
               = NyankoPictureBookData(0, obtainable, FALSE, 3, 0, 100, 100, 100, 100, <<>>)
    /\ last_obtainable = None
    /\ ModIdle

\* Stats(cat_id, form, raw_data) on the row
NewStats ==
    /\ stats' = Some(Stats(0, "f", raw_row))
    /\ UNCHANGED <<modVars, catalogVars, index, index_type, pack_cipher, raw_row, unit_buy_data,
                   nyanko_picture_book_data, last_obtainable>>

\* UnitBuyData(cat_id, raw_data) on the row, for the Cat's unit_buy_data
NewUnitBuyData ==
    /\ unit_buy_data = None
    /\ ~UnitBuyData_raises(raw_row)
    /\ unit_buy_data' = Some(UnitBuyData(0, raw_row))
    /\ UNCHANGED <<modVars, catalogVars, index, index_type, pack_cipher, raw_row, stats,
                   nyanko_picture_book_data, last_obtainable>>

\* Cat.set_obtainable
SetObtainable(obtainable) ==
    /\ unit_buy_data # None
    /\ unit_buy_data' = Some(UnitBuyData_set_obtainable(unit_buy_data[1], obtainable))
    /\ nyanko_picture_book_data' = Nyanko_set_obtainable(nyanko_picture_book_data, obtainable)
    /\ last_obtainable' = Some(obtainable)
    /\ UNCHANGED <<modVars, catalogVars, index, index_type, pack_cipher, raw_row, stats>>

\* Cat.is_obtainable
Cat_is_obtainable ==
    /\ UnitBuyData_is_obtainable(unit_buy_data[1])
    /\ Nyanko_is_obtainable(nyanko_picture_book_data)

NextCat ==
    \/ NewStats
    \/ NewUnitBuyData
    \/ \E obtainable \in BOOLEAN : SetObtainable(obtainable)

SpecCat == InitCat /\ [][NextCat]_vars

----------------------------------------------------------------------------
(* Properties of MapIndexType.from_index (SpecMap) *)

\* the partitions whose marker is at most i
MarkersUpTo(i) == {k \in 1..Len(MapIndexType) : MapIndexType[k].value <= i}

\* C17: for every i in [0, 32000) from_index(i) is the partition with the
\* greatest marker <= i; every i above 31000 maps to BEHEMOTH.
C17_GreatestMarkerBelow ==
    (index_type # None /\ index >= 0 /\ index < 32000) =>
        \E k \in MarkersUpTo(index) :
            /\ \A j \in MarkersUpTo(index) : MapIndexType[j].value <= MapIndexType[k].value
            /\ index_type[1] = Some(MapIndexType[k].name)

\* C18: for every i < 0 from_index(i) is none.
C18_NegativeIsNone ==
    (index_type # None /\ index < 0) => index_type[1] = None

----------------------------------------------------------------------------
(* Properties of the records of a cat (SpecCat) *)

\* C19: a Stats built from a list of 0..108 integers writes 108 slots, the
\* slots the list did not have as zero, and Stats(to_raw_data(s)) equals s;
\* the same for UnitBuyData with 63 slots.
C19_CanonicalWidth ==
    /\ (stats # None /\ Len(raw_row) <= 108) =>
           LET s == stats[1]
               raw == Stats_to_raw_data(s.fields)
           IN  /\ Len(raw) = 108
               /\ \A k \in (Len(raw_row) + 1)..108 : raw[k] = 0
               /\ Stats_eq(Stats(s.cat_id, s.form, raw), s)
    /\ (unit_buy_data # None /\ last_obtainable = None /\ Len(raw_row) <= 63) =>
           LET s == unit_buy_data[1]
               raw == UnitBuyData_to_raw_data(s.fields)
           IN  /\ Len(raw) = 63
               /\ \A k \in (Len(raw_row) + 1)..63 : raw[k] = 0
               /\ ~UnitBuyData_raises(raw)
               /\ UnitBuyData_eq(UnitBuyData(s.cat_id, raw), s)

\* a Stats and a UnitBuyData have been built from a row shorter than 63
\* whose slots are not zero
C19_Witness ==
    /\ stats # None
    /\ unit_buy_data # None
    /\ last_obtainable = None
    /\ Len(raw_row) > 20
    /\ Len(raw_row) < 63
    /\ \A k \in 1..Len(raw_row) : raw_row[k] # 0

\* C20: after Cat.set_obtainable(False) neither record is obtainable and
\* game_version is -1; after any Cat.set_obtainable call game_version is -1
\* exactly when nyanko_picture_book_data.obtainable is false.
C20_ObtainabilityLink ==
    last_obtainable # None =>
        /\ last_obtainable = Some(FALSE) =>
               /\ ~UnitBuyData_is_obtainable(unit_buy_data[1])
               /\ ~Nyanko_is_obtainable(nyanko_picture_book_data)
               /\ ~Cat_is_obtainable
               /\ unit_buy_data[1].fields.game_version = -1
        /\ (unit_buy_data[1].fields.game_version = -1)
               <=> (nyanko_picture_book_data.obtainable = FALSE)

\* set_obtainable(True) was called on a cat whose row had game_version -1
C20_Witness ==
    /\ last_obtainable = Some(TRUE)
    /\ Len(raw_row) > 57
    /\ raw_row[58] = -1
    /\ unit_buy_data[1].fields.game_version = 0
    /\ nyanko_picture_book_data.obtainable

----------------------------------------------------------------------------
(* The mod loader dialog (ui/mods/mod_loader.py): the UI thread runs       *)
(* load_mods_wrapper on a click, each worker thread runs load_mods_thread  *)

\* the two buttons that call load_mods_wrapper
Buttons == {"load_mods", "load_all_mods"}

\* the workers that exist: created by run_in_thread_progress_on_finished and
\* not yet at the end of load_mods_thread
Running == {w \in 1..MaxWorkers : workers[w] # "idle"}

InitLoader == InitWith({"en"}, {"modern"}, {None}, {None})

\* ModLoader.load_mods / load_all_mods -> load_mods_wrapper on the UI thread:
\* returns when loading_mods is set, otherwise creates the worker thread.
\* The thread is created here; load_mods_thread starts when it is scheduled.
LoadModsWrapper(button) ==
    /\ ~loading_mods
    /\ \E w \in 1..MaxWorkers :
           /\ workers[w] = "idle"
           /\ \A v \in 1..(w - 1) : workers[v] # "idle"
           /\ workers' = [workers EXCEPT ![w] = "created"]
    /\ UNCHANGED <<catalogVars, index, index_type, pack_cipher, catVars, cats, maps,
                   gd_records, last_import, table, last_apply, clone, loading_mods>>

\* load_mods_thread, first statement: self.loading_mods = True
LoadModsThreadEnter(w) ==
    /\ workers[w] = "created"
    /\ loading_mods' = TRUE
    /\ workers' = [workers EXCEPT ![w] = "from_apk"]
    /\ UNCHANGED <<catalogVars, index, index_type, pack_cipher, catVars, cats, maps,
                   gd_records, last_import, table, last_apply, clone>>

\* load_mods_thread, the work between the two assignments: GamePacks.from_apk,
\* apply_mods with the script and audio mods, load_packs_into_game
LoadModsThreadWork(w) ==
    /\ workers[w] \in {"from_apk", "apply_mods"}
    /\ workers' = [workers EXCEPT ![w] = IF @ = "from_apk" THEN "apply_mods"
                                         ELSE "load_packs_into_game"]
    /\ UNCHANGED <<catalogVars, index, index_type, pack_cipher, catVars, cats, maps,
                   gd_records, last_import, table, last_apply, clone, loading_mods>>

\* load_mods_thread, last statement: self.loading_mods = False
LoadModsThreadExit(w) ==
    /\ workers[w] = "load_packs_into_game"
    /\ loading_mods' = FALSE
    /\ workers' = [workers EXCEPT ![w] = "idle"]
    /\ UNCHANGED <<catalogVars, index, index_type, pack_cipher, catVars, cats, maps,
                   gd_records, last_import, table, last_apply, clone>>

NextLoader ==
    \/ \E button \in Buttons : LoadModsWrapper(button)
    \/ \E w \in 1..MaxWorkers : LoadModsThreadEnter(w)
    \/ \E w \in 1..MaxWorkers : LoadModsThreadWork(w)
    \/ \E w \in 1..MaxWorkers : LoadModsThreadExit(w)

SpecLoader == InitLoader /\ [][NextLoader]_vars

\* C30: at most one worker running load_mods_thread exists at any time: a
\* load_mods_wrapper call made while an earlier load was started and has
\* not finished starts no second worker
C30_AtMostOneWorker == Cardinality(Running) <= 1

====
